---- MODULE Spec2Model ----
(***************************************************************************)
(* Streaming event-translation pipeline of backend/agents/llm_client.py:   *)
(* the SQL tool bridge (run_sql), the event demultiplexer                  *)
(* (handle_agent_events) and the stream wrapper (stream_agent_response).   *)
(*                                                                         *)
(* Strings are sequences of one-character strings, so that upper(),        *)
(* strip(), startswith(), rstrip(';'), the "in" test and the formatting of *)
(* an integer are computed character by character as Python computes      *)
(* them.                                                                   *)
(***************************************************************************)
EXTENDS Integers, Sequences, FiniteSets, TLC

VARIABLES
    sqlPc,           \* position of the run_sql coroutine
    toolArgs,        \* the arguments the RunSQLTool was built from
    tool,            \* the RunSQLTool instance run_sql was called with
    final_query,     \* run_sql: the query posted to the engine
    sqlResult,       \* run_sql: the QueryResult returned
    sqlExc,          \* run_sql: the exception raised
    thought_buffer,  \* handle_agent_events: the accumulation buffer
    pending,         \* handle_agent_events: events of the current raw event not yet yielded
    out,             \* the events the consumer received from stream_agent_response
    genPc,           \* position of stream_agent_response
    nPulled,         \* number of raw lifecycle events pulled so far
    agent,           \* the agent: tool calls requested and run
    hist,            \* observation only: what happened, for stating properties
    extractPc,       \* position of a direct call of _extract_code_blocks
    extractDoc,      \* _extract_code_blocks: the text it is called with, and how it was built
    extracted,       \* _extract_code_blocks: the list returned (code_blocks)
    chatPc,          \* chat.py generate_chunks: where the generator is parked
    chatMessage,     \* chat.py: message.message
    chatI,           \* chat.py generate_chunks: i of the chunk loop
    frames,          \* chat.py: the strings generate_chunks has yielded
    chatHist,        \* observation only: the event of each frame, the sleeps before it
    queryPc,         \* query.py query_local_duckdb: position of the handler
    queryRequest,    \* query.py: the QueryRequest
    script_path,     \* query.py: the temporary script file
    queryProcess,    \* query.py: the finished child process
    queryResponse,   \* query.py: the HTTP answer
    queryHist,       \* observation only: what the engine did and why the request ended
    pair,            \* two concurrent sessions: per session, the locals of handle_agent_events
    created          \* create_agent: the objects constructed so far and the agents returned

vars == <<sqlPc, toolArgs, tool, final_query, sqlResult, sqlExc,
          thought_buffer, pending, out, genPc, nPulled, agent, hist,
          extractPc, extractDoc, extracted,
          chatPc, chatMessage, chatI, frames, chatHist,
          queryPc, queryRequest, script_path, queryProcess, queryResponse, queryHist,
          pair, created>>

sqlVars == <<sqlPc, toolArgs, tool, final_query, sqlResult, sqlExc>>
demuxVars == <<thought_buffer, pending, out, genPc, nPulled, agent, hist>>
extractVars == <<extractPc, extractDoc, extracted>>
chatVars == <<chatPc, chatMessage, chatI, frames, chatHist>>
queryVars == <<queryPc, queryRequest, script_path, queryProcess, queryResponse, queryHist>>
pairVars == <<pair>>
agentVars == <<created>>

-----------------------------------------------------------------------------
(* Bounds of the model *)

MaxSemis == 2      \* trailing ';' characters of a generated query
MaxPad == 1        \* whitespace characters before and after a generated query
MaxRaw == 4        \* raw lifecycle events pulled in one session
MaxTools == 1      \* run_sql invocations in one session
MaxBlocks == 2     \* fenced blocks of a generated text
MaxPieces == 6     \* pieces of a text put together freely

-----------------------------------------------------------------------------
(* Python str operations *)

LowerLetters == <<"a", "b", "c", "d", "e", "f", "g", "h", "i", "j", "k", "l", "m",
                  "n", "o", "p", "q", "r", "s", "t", "u", "v", "w", "x", "y", "z">>
UpperLetters == <<"A", "B", "C", "D", "E", "F", "G", "H", "I", "J", "K", "L", "M",
                  "N", "O", "P", "Q", "R", "S", "T", "U", "V", "W", "X", "Y", "Z">>
Digits == <<"0", "1", "2", "3", "4", "5", "6", "7", "8", "9">>

Whitespace == {" ", "\t", "\n", "\r"}

\* a word character (\w of the re module)
WordChar(c) ==
    \/ \E i \in 1..26 : c = LowerLetters[i] \/ c = UpperLetters[i]
    \/ \E i \in 1..10 : c = Digits[i]
    \/ c = "_"

\* str.upper(), one character
UpperChar(c) ==
    IF \E i \in 1..26 : LowerLetters[i] = c
    THEN UpperLetters[CHOOSE i \in 1..26 : LowerLetters[i] = c]
    ELSE c

\* str.upper()
Upper(s) == [i \in 1..Len(s) |-> UpperChar(s[i])]

\* str.strip(): leading and trailing whitespace removed
Strip(s) ==
    IF \A i \in 1..Len(s) : s[i] \in Whitespace
    THEN <<>>
    ELSE LET first == CHOOSE i \in 1..Len(s) :
                          /\ s[i] \notin Whitespace
                          /\ \A j \in 1..(i-1) : s[j] \in Whitespace
             last  == CHOOSE i \in 1..Len(s) :
                          /\ s[i] \notin Whitespace
                          /\ \A j \in (i+1)..Len(s) : s[j] \in Whitespace
         IN SubSeq(s, first, last)

\* str.startswith(p)
StartsWith(s, p) == Len(s) >= Len(p) /\ SubSeq(s, 1, Len(p)) = p

\* p in s
Contains(s, p) == \E i \in 1..(Len(s) - Len(p) + 1) : SubSeq(s, i, i + Len(p) - 1) = p

\* str.rstrip(c): every trailing occurrence of the character c removed
RECURSIVE RStripChar(_, _)
RStripOne(s, c) == IF Len(s) > 0 /\ s[Len(s)] = c THEN SubSeq(s, 1, Len(s) - 1) ELSE s
RStripChar(s, c) ==
    IF Len(s) > 0 /\ s[Len(s)] = c THEN RStripChar(SubSeq(s, 1, Len(s) - 1), c) ELSE s

\* str(n) / f"{n}" for an int: decimal digits, a leading '-' when negative
RECURSIVE NatToStr(_)
NatToStr(n) == IF n < 10 THEN <<Digits[n + 1]>> ELSE NatToStr(n \div 10) \o <<Digits[(n % 10) + 1]>>
IntToStr(n) == IF n < 0 THEN <<"-">> \o NatToStr(-n) ELSE NatToStr(n)

-----------------------------------------------------------------------------
(* Text constants of the source *)

SELECT == <<"S", "E", "L", "E", "C", "T">>
LIMIT == <<"L", "I", "M", "I", "T">>
LimitClause == <<" ", "L", "I", "M", "I", "T", " ">>
SqlErrorPrefix == <<"S", "Q", "L", " ", "e", "x", "e", "c", "u", "t", "i", "o", "n", " ",
                    "e", "r", "r", "o", "r", ":", " ">>
ConnectErrorPrefix == <<"F", "a", "i", "l", "e", "d", " ", "t", "o", " ", "c", "o", "n", "n",
                        "e", "c", "t", " ", "t", "o", " ", "q", "u", "e", "r", "y", " ",
                        "e", "n", "d", "p", "o", "i", "n", "t", ":", " ">>
DefaultLimit == 1000

-----------------------------------------------------------------------------
(* models/__init__.py *)

\* RunSQLTool(**args): limit defaults to 1000, data_source is the literal "duckdb".
\* args.limit is <<>> when the caller gave no limit and <<n>> when it gave n.
RunSQLTool(args) ==
    [query |-> args.query,
     limit |-> IF args.limit = <<>> THEN DefaultLimit ELSE args.limit[1],
     data_source |-> "duckdb"]

\* int("12") for a string of decimal digits
RECURSIVE IntFromDigits(_)
IntFromDigits(d) ==
    IF d = <<>> THEN 0
    ELSE 10 * IntFromDigits(SubSeq(d, 1, Len(d) - 1))
         + (CHOOSE v \in 0..9 : Digits[v + 1] = d[Len(d)])

\* what the validation of an int field accepts from a JSON string: digits
IsIntString(s) == s # <<>> /\ \A i \in 1..Len(s) : \E v \in 0..9 : Digits[v + 1] = s[i]

\* QueryResult(**body): the three fields of the body, nothing else checked.
\* The validation of row_count: int is lax: a JSON string of digits is
\* converted to the integer it denotes.
QueryResult(body) ==
    [columns |-> body.columns,
     rows |-> body.rows,
     row_count |-> IF body.shape = "result_str_count"
                   THEN IntFromDigits(body.count_text)
                   ELSE body.row_count]

NoResult == [columns |-> <<>>, rows |-> <<>>, row_count |-> -1]
NoExc == [type |-> "none", message |-> <<>>]

-----------------------------------------------------------------------------
(* run_sql: the query-limiting policy (llm_client.py lines 39-46) *)

LimitQueryEverySelect(t) ==
    IF t.limit > 0 /\ StartsWith(Strip(Upper(t.query)), SELECT)
    THEN RStripChar(t.query, ";") \o LimitClause \o IntToStr(t.limit)
    ELSE t.query
LimitQueryAnyStatement(t) ==
    IF t.limit > 0 /\ ~Contains(Upper(Strip(t.query)), LIMIT)
    THEN RStripChar(t.query, ";") \o LimitClause \o IntToStr(t.limit)
    ELSE t.query
LimitQuery(t) ==
    LET query_upper == Strip(Upper(t.query))
    IN IF /\ t.limit > 0
          /\ ~Contains(query_upper, LIMIT)
          /\ StartsWith(query_upper, SELECT)
       THEN RStripChar(t.query, ";") \o LimitClause \o IntToStr(t.limit)
       ELSE t.query

-----------------------------------------------------------------------------
(* The query engine as run_sql sees it: an HTTP status with a body, or a   *)
(* connectivity failure (httpx.RequestError: unreachable, timeout).        *)

Body(shape, columns, rows, row_count, detail) ==
    [shape |-> shape, columns |-> columns, rows |-> rows, row_count |-> row_count,
     detail |-> detail, count_text |-> <<>>]

\* a JSON object with columns and rows whose row_count is a JSON string
StrCountBody(columns, rows, count_text) ==
    [Body("result_str_count", columns, rows, 0, <<>>) EXCEPT !.count_text = count_text]

\* bodies of the QueryResult shape with conforming types
ResultBodies ==
    { Body("result", <<"a">>, << <<"1">> >>, 1, <<>>),
      Body("result", <<>>, <<>>, 0, <<>>),
      Body("result", <<"a", "b">>, << <<"1", "2">>, <<"3", "4">> >>, 2, <<>>),
      Body("result", <<"a">>, << <<"1">> >>, 2, <<>>),
      Body("result", <<"a", "b">>, << <<"1">> >>, 1, <<>>) }

Details ==
    { <<"C", "a", "t", "a", "l", "o", "g", " ", "E", "r", "r", "o", "r">>,
      SqlErrorPrefix \o <<"x">>,
      <<"t", "i", "m", "e", "d", " ", "o", "u", "t">>,
      <<>> }

DetailBodies == { Body("detail", <<>>, <<>>, 0, d) : d \in Details }
ObjectBody == Body("object", <<>>, <<>>, 0, <<>>)   \* a JSON object without detail
TextBody == Body("text", <<>>, <<>>, 0, <<>>)       \* not JSON
ArrayBody == Body("array", <<>>, <<>>, 0, <<>>)     \* JSON, but a list and not an object

\* bodies of the QueryResult shape with a wrongly typed row_count
StrCountBodies ==
    { StrCountBody(<<"a">>, << <<"1">> >>, <<"1">>),
      StrCountBody(<<"a">>, << <<"1">>, <<"2">> >>, <<"1", "2">>),
      StrCountBody(<<"a">>, << <<"1">> >>, <<"x">>) }

\* str(e) of an httpx.RequestError
RequestErrorTexts ==
    { <<"t", "i", "m", "e", "d", " ", "o", "u", "t">>,
      <<"r", "e", "f", "u", "s", "e", "d">> }

StatusResponse(status, body) ==
    [kind |-> "status", status |-> status, body |-> body, text |-> <<>>]
RequestError(text) ==
    [kind |-> "request_error", status |-> 0, body |-> TextBody, text |-> text]

Responses ==
    { StatusResponse(200, b) :
          b \in ResultBodies \cup StrCountBodies \cup {ObjectBody, TextBody, ArrayBody} }
    \cup { StatusResponse(400, b) : b \in DetailBodies \cup {ObjectBody, TextBody} }
    \cup { StatusResponse(500, b) : b \in DetailBodies }
    \cup { RequestError(m) : m \in RequestErrorTexts }

\* str(e) of the httpx.HTTPStatusError raised by raise_for_status()
StrHTTPStatusError(status) ==
    <<"H", "T", "T", "P", " ", "s", "t", "a", "t", "u", "s", " ">> \o IntToStr(status)

\* llm_client.py lines 58-66
SqlErrorNoPrefix(resp) ==
    LET error_detail ==
            IF resp.body.shape = "detail" THEN resp.body.detail
            ELSE StrHTTPStatusError(resp.status)
    IN [type |-> "ValueError", message |-> error_detail]
SqlError(resp) ==
    LET error_detail ==
            IF resp.body.shape = "detail" THEN resp.body.detail
            ELSE StrHTTPStatusError(resp.status)
    IN [type |-> "ValueError", message |-> SqlErrorPrefix \o error_detail]

\* llm_client.py lines 67-68
ConnectErrorAsSqlError(resp) ==
    [type |-> "ValueError", message |-> SqlErrorPrefix \o resp.text]
ConnectError(resp) ==
    [type |-> "ValueError", message |-> ConnectErrorPrefix \o resp.text]

\* what escapes run_sql when a 2xx body is not JSON or not a QueryResult
JSONDecodeError == [type |-> "JSONDecodeError", message |-> <<"j", "s", "o", "n">>]
ValidationError == [type |-> "ValidationError", message |-> <<"v", "a", "l", "i", "d">>]
\* QueryResult(**result_data) when result_data is not a mapping
TypeError == [type |-> "TypeError", message |-> <<"m", "a", "p">>]

-----------------------------------------------------------------------------
(* run_sql as a coroutine: called -> sent -> returned | raised *)

\* lines 40-54: the limiting policy, then the POST of {"sql": final_query}
RunSqlDispatch ==
    /\ UNCHANGED extractVars
    /\ UNCHANGED chatVars
    /\ UNCHANGED queryVars
    /\ UNCHANGED pairVars
    /\ UNCHANGED agentVars
    /\ sqlPc = "called"
    /\ final_query' = LimitQuery(tool)
    /\ sqlPc' = "sent"
    /\ hist' = [hist EXCEPT !.posts = Append(@, [sql |-> LimitQuery(tool)])]
    /\ UNCHANGED <<toolArgs, tool, sqlResult, sqlExc>>
    /\ UNCHANGED <<thought_buffer, pending, out, genPc, nPulled, agent>>

\* lines 51-68: the outcome of the POST
RunSqlOutcome(resp) ==
    IF resp.kind = "request_error"
    THEN [pc |-> "raised", result |-> NoResult, exc |-> ConnectError(resp)]
    ELSE IF resp.status >= 400
    THEN [pc |-> "raised", result |-> NoResult, exc |-> SqlError(resp)]
    ELSE IF resp.body.shape = "text"
    THEN [pc |-> "raised", result |-> NoResult, exc |-> JSONDecodeError]
    ELSE IF resp.body.shape = "array"
    THEN [pc |-> "raised", result |-> NoResult, exc |-> TypeError]
    ELSE IF resp.body.shape = "result_str_count" /\ ~IsIntString(resp.body.count_text)
    THEN [pc |-> "raised", result |-> NoResult, exc |-> ValidationError]
    ELSE IF resp.body.shape \notin {"result", "result_str_count"}
    THEN [pc |-> "raised", result |-> NoResult, exc |-> ValidationError]
    ELSE [pc |-> "returned", result |-> QueryResult(resp.body), exc |-> NoExc]

RunSqlReceiveRetrying(resp) ==
    /\ UNCHANGED extractVars
    /\ UNCHANGED chatVars
    /\ UNCHANGED queryVars
    /\ UNCHANGED pairVars
    /\ UNCHANGED agentVars
    /\ sqlPc = "sent"
    /\ IF resp.kind = "request_error" /\ Len(hist.posts) < 2
       THEN /\ hist' = [hist EXCEPT !.posts = Append(@, [sql |-> final_query])]
            /\ UNCHANGED <<sqlPc, sqlResult, sqlExc>>
       ELSE /\ sqlPc' = RunSqlOutcome(resp).pc
            /\ sqlResult' = RunSqlOutcome(resp).result
            /\ sqlExc' = RunSqlOutcome(resp).exc
            /\ hist' = [hist EXCEPT !.response = resp,
                                    !.toolFailed = @ \/ RunSqlOutcome(resp).pc = "raised"]
    /\ UNCHANGED <<toolArgs, tool, final_query>>
    /\ UNCHANGED <<thought_buffer, pending, out, genPc, nPulled, agent>>
RunSqlReceive(resp) ==
    /\ UNCHANGED extractVars
    /\ UNCHANGED chatVars
    /\ UNCHANGED queryVars
    /\ UNCHANGED pairVars
    /\ UNCHANGED agentVars
    /\ sqlPc = "sent"
    /\ LET o == RunSqlOutcome(resp)
       IN /\ sqlPc' = o.pc
          /\ sqlResult' = o.result
          /\ sqlExc' = o.exc
    /\ hist' = [hist EXCEPT !.response = resp,
                            !.toolFailed = @ \/ RunSqlOutcome(resp).pc = "raised"]
    /\ UNCHANGED <<toolArgs, tool, final_query>>
    /\ UNCHANGED <<thought_buffer, pending, out, genPc, nPulled, agent>>

-----------------------------------------------------------------------------
(* Inputs of run_sql *)

RECURSIVE Repeat(_, _)
Repeat(c, n) == IF n = 0 THEN <<>> ELSE <<c>> \o Repeat(c, n - 1)

Leads == { Repeat(" ", k) : k \in 0..MaxPad }
Keywords ==
    { SELECT,
      <<"s", "e", "l", "e", "c", "t">>,
      <<"S", "e", "L", "e", "C", "t">>,
      <<"C", "R", "E", "A", "T", "E">> }
QueryBodies ==
    { <<" ", "x">>,
      <<" ", "l", "i", "m", "i", "t", "_", "x">>,
      <<" ", "x", " ", "L", "I", "M", "I", "T", " ", "5">>,
      <<" ", "x", " ", "l", "i", "m", "i", "t", " ", "5">> }
Trails == { Repeat(";", k) \o Repeat(" ", j) : k \in 0..MaxSemis, j \in 0..MaxPad }

Queries == { l \o k \o b \o t : l \in Leads, k \in Keywords, b \in QueryBodies, t \in Trails }
LimitArgs == { <<>>, <<-1>>, <<0>>, <<1>>, <<10>>, <<205>> }
AllToolArgs == { [query |-> q, limit |-> l] : q \in Queries, l \in LimitArgs }

-----------------------------------------------------------------------------
(* _extract_code_blocks (llm_client.py lines 302-325): the matches of the   *)
(* pattern FENCE(\w+)?\s*\n(.*?)FENCE with DOTALL, left to right and         *)
(* non-overlapping, where FENCE is three backticks.                         *)

\* the backtick character (a TLA+ string cannot hold it)
BT == "bt"
Fence == <<BT, BT, BT>>
Tsx == <<"t", "s", "x">>

IsFenceAt(t, i) == i >= 1 /\ i + 2 <= Len(t) /\ SubSeq(t, i, i + 2) = Fence

\* the last index of the longest run of word characters that starts at i
\* (i - 1 when the run is empty): the greedy (\w+)?
WordRunEnd(t, i) ==
    IF i > Len(t) \/ ~WordChar(t[i]) THEN i - 1
    ELSE CHOOSE j \in i..Len(t) :
             /\ \A k \in i..j : WordChar(t[k])
             /\ (j = Len(t) \/ ~WordChar(t[j + 1]))

\* the same for whitespace: the longest stretch \s* can take
SpaceRunEnd(t, i) ==
    IF i > Len(t) \/ t[i] \notin Whitespace THEN i - 1
    ELSE CHOOSE j \in i..Len(t) :
             /\ \A k \in i..j : t[k] \in Whitespace
             /\ (j = Len(t) \/ t[j + 1] \notin Whitespace)

\* the match of the pattern that starts at the fence at p, if there is one:
\* the tag is the whole run of word characters, \s*\n ends at the last
\* newline of the whitespace run after it, and the content is lazy: it ends
\* at the first closing fence.
MatchAtGreedy(t, p) ==
    LET w_end == WordRunEnd(t, p + 3)
        s_end == SpaceRunEnd(t, w_end + 1)
        newlines == { i \in (w_end + 1)..s_end : t[i] = "\n" }
        nl == CHOOSE i \in newlines : \A j \in newlines : j <= i
        closers == { c \in (nl + 1)..(Len(t) - 2) : IsFenceAt(t, c) }
        close == CHOOSE c \in closers : \A d \in closers : d <= c
    IN IF newlines = {} THEN [ok |-> FALSE, group1 |-> <<>>, group2 |-> <<>>, end |-> p]
       ELSE IF closers = {} THEN [ok |-> FALSE, group1 |-> <<>>, group2 |-> <<>>, end |-> p]
       ELSE [ok |-> TRUE,
             group1 |-> SubSeq(t, p + 3, w_end),
             group2 |-> SubSeq(t, nl + 1, close - 1),
             end |-> close + 3]
MatchAt(t, p) ==
    LET w_end == WordRunEnd(t, p + 3)
        s_end == SpaceRunEnd(t, w_end + 1)
        newlines == { i \in (w_end + 1)..s_end : t[i] = "\n" }
        nl == CHOOSE i \in newlines : \A j \in newlines : j <= i
        closers == { c \in (nl + 1)..(Len(t) - 2) : IsFenceAt(t, c) }
        close == CHOOSE c \in closers : \A d \in closers : c <= d
    IN IF newlines = {} THEN [ok |-> FALSE, group1 |-> <<>>, group2 |-> <<>>, end |-> p]
       ELSE IF closers = {} THEN [ok |-> FALSE, group1 |-> <<>>, group2 |-> <<>>, end |-> p]
       ELSE [ok |-> TRUE,
             group1 |-> SubSeq(t, p + 3, w_end),
             group2 |-> SubSeq(t, nl + 1, close - 1),
             end |-> close + 3]

\* lines 316-323: one match turned into at most one block
BlockOfNoDefault(m) ==
    LET content == Strip(m.group2)
    IN IF content # <<>> THEN <<[language |-> m.group1, content |-> content]>> ELSE <<>>
BlockOfNoStrip(m) ==
    LET language == IF m.group1 = <<>> THEN Tsx ELSE m.group1
        content == m.group2
    IN IF content # <<>> THEN <<[language |-> language, content |-> content]>> ELSE <<>>
BlockOf(m) ==
    LET language == IF m.group1 = <<>> THEN Tsx ELSE m.group1
        content == Strip(m.group2)
    IN IF content # <<>> THEN <<[language |-> language, content |-> content]>> ELSE <<>>

RECURSIVE ExtractFrom(_, _)
ExtractFirstOnly(t, p) ==
    IF p + 2 > Len(t) THEN <<>>
    ELSE IF IsFenceAt(t, p) /\ MatchAt(t, p).ok
    THEN BlockOf(MatchAt(t, p))
    ELSE ExtractFrom(t, p + 1)
ExtractFrom(t, p) ==
    IF p + 2 > Len(t) THEN <<>>
    ELSE IF IsFenceAt(t, p) /\ MatchAt(t, p).ok
    THEN BlockOf(MatchAt(t, p)) \o ExtractFrom(t, MatchAt(t, p).end)
    ELSE ExtractFrom(t, p + 1)

_extract_code_blocks(text) == ExtractFrom(text, 1)

\* line 315: re.finditer(pattern, text, re.DOTALL) from position p on: the
\* matches with the region [start, end) of the text each one covers
RECURSIVE MatchesFrom(_, _)
MatchesFrom(t, p) ==
    IF p + 2 > Len(t) THEN <<>>
    ELSE IF IsFenceAt(t, p) /\ MatchAt(t, p).ok
    THEN <<[start |-> p, end |-> MatchAt(t, p).end, match |-> MatchAt(t, p)]>>
         \o MatchesFrom(t, MatchAt(t, p).end)
    ELSE MatchesFrom(t, p + 1)

-----------------------------------------------------------------------------
(* Raw lifecycle events (pydantic_ai AgentStreamEvent) *)

NoContent == [shape |-> "none", columns |-> <<>>, rows |-> <<>>, row_count |-> 0]

\* the content of a FunctionToolResultEvent: a QueryResult instance, or
\* something else (a dict, a string, ...)
Content(shape, r) ==
    [shape |-> shape, columns |-> r.columns, rows |-> r.rows, row_count |-> r.row_count]

RawEvent(kind, part, text, tool_name, args, content) ==
    [kind |-> kind, part |-> part, text |-> text, tool_name |-> tool_name,
     args |-> args, content |-> content]

PartStartEvent(part, text) == RawEvent("PartStart", part, text, <<>>, <<>>, NoContent)
PartDeltaEvent(part, text) == RawEvent("PartDelta", part, text, <<>>, <<>>, NoContent)
PartEndText(text) == RawEvent("PartEnd", "text", text, <<>>, <<>>, NoContent)
PartEndToolCall(tool_name, args) ==
    RawEvent("PartEnd", "tool_call", <<>>, tool_name, args, NoContent)
FunctionToolResultEvent(content) == RawEvent("ToolResult", "none", <<>>, <<>>, <<>>, content)
\* the end of a part that is neither text nor a tool call (a thinking part)
PartEndOther == RawEvent("PartEnd", "thinking", <<>>, <<>>, <<>>, NoContent)
OtherEvent == RawEvent("Other", "none", <<>>, <<>>, <<>>, NoContent)

-----------------------------------------------------------------------------
(* Protocol events (the dicts handle_agent_events and stream_agent_response *)
(* yield)                                                                   *)

Thought(content) == [type |-> "thought", content |-> content]
Code(language, content) == [type |-> "code", language |-> language, content |-> content]
DataFlattened(r) ==
    [type |-> "data", columns |-> r.columns, rows |-> r.rows, row_count |-> r.row_count]
Data(r) ==
    [type |-> "data",
     payload |-> [columns |-> r.columns, rows |-> r.rows, row_count |-> r.row_count]]
ErrorEventNoStage(message) == [type |-> "error", message |-> message, stage |-> "unknown"]
ErrorEvent(message) == [type |-> "error", message |-> message, stage |-> "llm_processing"]

CallingTool == <<"C", "a", "l", "l", "i", "n", "g", " ", "t", "o", "o", "l", ":", " ">>
WithArgs == <<" ", "w", "i", "t", "h", " ", "a", "r", "g", "s", ":", " ">>

-----------------------------------------------------------------------------
(* handle_agent_events: one iteration of the loop, per kind of raw event.   *)
(* Each gives the buffer afterwards and the events yielded, in order.       *)

Step(buffer, events) == [buffer |-> buffer, events |-> events]

\* lines 236-242
OnPartStartAppend(buf, e) ==
    IF e.part = "text" THEN Step(buf \o e.text, <<Thought(buf \o e.text)>>) ELSE Step(buf, <<>>)
OnPartStartAnyPart(buf, e) == Step(e.text, <<Thought(e.text)>>)
OnPartStart(buf, e) ==
    IF e.part = "text" THEN Step(e.text, <<Thought(e.text)>>) ELSE Step(buf, <<>>)

\* lines 243-250
OnPartDeltaOnly(buf, e) ==
    IF e.part = "text" THEN Step(buf \o e.text, <<Thought(e.text)>>) ELSE Step(buf, <<>>)
OnPartDeltaReplaces(buf, e) ==
    IF e.part = "text" THEN Step(e.text, <<Thought(e.text)>>) ELSE Step(buf, <<>>)
OnPartDelta(buf, e) ==
    IF e.part = "text" THEN Step(buf \o e.text, <<Thought(buf \o e.text)>>)
    ELSE Step(buf, <<>>)

\* lines 251-261
OnToolResultAnyShape(buf, e) ==
    IF e.content.shape \in {"QueryResult", "dict"} THEN Step(buf, <<Data(e.content)>>)
    ELSE Step(buf, <<>>)
OnToolResult(buf, e) ==
    IF e.content.shape = "QueryResult" THEN Step(buf, <<Data(e.content)>>)
    ELSE Step(buf, <<>>)

\* lines 262-275
OnPartEndFromBuffer(buf, e) ==
    IF e.part = "text"
    THEN LET code_blocks == _extract_code_blocks(buf)
         IN Step(buf, [i \in 1..Len(code_blocks) |->
                          Code(code_blocks[i].language, code_blocks[i].content)])
    ELSE IF e.part = "tool_call"
    THEN Step(buf, <<Thought(CallingTool \o e.tool_name \o WithArgs \o e.args)>>)
    ELSE Step(buf, <<>>)
OnPartEndErrorOnNoBlock(buf, e) ==
    IF e.part = "text"
    THEN LET code_blocks == _extract_code_blocks(e.text)
         IN IF code_blocks = <<>> THEN Step(buf, <<ErrorEvent(<<"n", "o">>)>>)
            ELSE Step(buf, [i \in 1..Len(code_blocks) |->
                               Code(code_blocks[i].language, code_blocks[i].content)])
    ELSE IF e.part = "tool_call"
    THEN Step(buf, <<Thought(CallingTool \o e.tool_name \o WithArgs \o e.args)>>)
    ELSE Step(buf, <<>>)
OnPartEndNarrationBuffered(buf, e) ==
    IF e.part = "text"
    THEN LET code_blocks == _extract_code_blocks(e.text)
         IN Step(buf, [i \in 1..Len(code_blocks) |->
                          Code(code_blocks[i].language, code_blocks[i].content)])
    ELSE IF e.part = "tool_call"
    THEN Step(buf \o CallingTool \o e.tool_name \o WithArgs \o e.args,
              <<Thought(buf \o CallingTool \o e.tool_name \o WithArgs \o e.args)>>)
    ELSE Step(buf, <<>>)
OnPartEnd(buf, e) ==
    IF e.part = "text"
    THEN LET code_blocks == _extract_code_blocks(e.text)
         IN Step(buf, [i \in 1..Len(code_blocks) |->
                          Code(code_blocks[i].language, code_blocks[i].content)])
    ELSE IF e.part = "tool_call"
    THEN Step(buf, <<Thought(CallingTool \o e.tool_name \o WithArgs \o e.args)>>)
    ELSE Step(buf, <<>>)

\* lines 235-275: the isinstance dispatch
HandleEvent(buf, e) ==
    CASE e.kind = "PartStart" -> OnPartStart(buf, e)
      [] e.kind = "PartDelta" -> OnPartDelta(buf, e)
      [] e.kind = "ToolResult" -> OnToolResult(buf, e)
      [] e.kind = "PartEnd" -> OnPartEnd(buf, e)
      [] OTHER -> Step(buf, <<>>)

-----------------------------------------------------------------------------
(* Inputs of a session *)

StartTexts == { <<>>, <<"x">> }
DeltaTexts == { <<"a">>, <<"b">>, <<"c">> }
EndTexts ==
    { <<BT, BT, BT, "p", "y", "\n", "x", "\n", BT, BT, BT,
        BT, BT, BT, "\n", "y", BT, BT, BT>>,
      <<BT, BT, BT, "\n", " ", "\n", BT, BT, BT>> }
ToolNames == { <<"r", "u", "n", "_", "s", "q", "l">> }
ArgTexts == { <<"{", "}">>, <<"{", "q", "}">> }
FailureTexts == { <<"b", "o", "o", "m">> }

\* tool result contents that are not QueryResult instances
OtherContents ==
    { Content("dict", [columns |-> <<"a">>, rows |-> << <<"1">> >>, row_count |-> 1]),
      Content("str", [columns |-> <<>>, rows |-> <<>>, row_count |-> 0]) }

\* the events the model and the agent can deliver next, given the buffer
RawEvents(buf) ==
    { PartStartEvent("text", t) : t \in StartTexts }
    \cup { PartStartEvent("tool_call", <<>>) }
    \cup { PartDeltaEvent("text", t) : t \in DeltaTexts }
    \cup { PartDeltaEvent("tool_call", <<"{">>) }
    \cup { PartEndText(t) : t \in EndTexts \cup {buf} }
    \cup { PartEndToolCall(n, a) : n \in ToolNames, a \in ArgTexts }
    \cup { FunctionToolResultEvent(c) : c \in OtherContents }
    \cup { PartEndOther, OtherEvent }

SessionToolArgs ==
    { [query |-> <<"s", "e", "l", "e", "c", "t", " ", "x", ";">>, limit |-> <<>>],
      [query |-> <<"C", "R", "E", "A", "T", "E", " ", "x">>, limit |-> <<5>>] }

SessionResponses ==
    { StatusResponse(200, b) : b \in ResultBodies \cup {TextBody, ObjectBody} }
    \cup { StatusResponse(400, Body("detail", <<>>, <<>>, 0, <<"C", "a", "t", "a", "l", "o", "g", " ", "E", "r", "r", "o", "r">>)) }
    \cup { RequestError(<<"r", "e", "f", "u", "s", "e", "d">>) }

-----------------------------------------------------------------------------
(* The session: stream_agent_response driving handle_agent_events over the  *)
(* raw events of the agent, with run_sql executed by the agent.             *)

NoHist ==
    [response |-> RequestError(<<>>),  \* the last answer of the engine to run_sql
     lastRaw |-> OtherEvent,           \* the raw event pulled last
     outSrc |-> <<>>,                  \* for each event of out, the index of its raw event
     seg |-> <<>>,                     \* texts of the current segment: start, then deltas
     segRaw |-> <<>>,                  \* their raw indices
     qrLog |-> <<>>,                   \* QueryResult contents of the ToolResult events pulled
     failed |-> FALSE,                 \* the raw sequence raised
     failMsg |-> <<>>,                 \* str(e) of what it raised
     toolFailed |-> FALSE,             \* a run_sql call of the session raised
     bufBefore |-> <<>>,               \* the buffer when the last raw event was pulled
     posts |-> <<>>,                   \* the {sql} bodies the current run_sql call has posted
     log |-> FALSE,                    \* whether the raw events pulled are recorded
     raws |-> <<>>]                    \* the raw events pulled, when recorded

InitDemux ==
    /\ thought_buffer = <<>>
    /\ pending = <<>>
    /\ out = <<>>
    /\ genPc = "run"
    /\ nPulled = 0
    /\ agent = [pendingCalls |-> 0, nTools |-> 0]
    /\ hist = NoHist

\* no direct call of _extract_code_blocks
NoDoc == [text |-> <<>>, parts |-> <<>>, gaps |-> <<>>, structured |-> FALSE]
InitExtractIdle ==
    /\ extractPc = "idle"
    /\ extractDoc = NoDoc
    /\ extracted = <<>>

-----------------------------------------------------------------------------
(* api/query.py: the local query endpoint. The handler writes a script to a *)
(* temporary file, runs it in a child process that calls the engine, and    *)
(* answers from what the child printed.                                     *)

NUL == "nul"

QueryRequest(sql) == [sql |-> sql]

\* what the engine does with the statement in the child (script lines 43-45):
\* description and rows, or an exception
IntCell(v) == [t |-> "int", v |-> v, s |-> <<>>]
StrValue(s) == [t |-> "str", v |-> 0, s |-> s]
NoneCell == [t |-> "none", v |-> 0, s |-> <<>>]
Fetched(columns, rows) == [kind |-> "rows", columns |-> columns, rows |-> rows, message |-> <<>>]
Raised(message) == [kind |-> "raises", columns |-> <<>>, rows |-> <<>>, message |-> message]
EngineOutcomes ==
    { Fetched(<< <<"v", "a", "l", "u", "e">>, <<"n", "a", "m", "e">> >>, << <<IntCell(1), StrValue(<<"t", "e", "s", "t">>)>> >>),
      Fetched(<< <<"x">> >>, << <<NoneCell>>, <<IntCell(-2)>> >>),
      Fetched(<< <<"C", "o", "u", "n", "t">> >>, <<>>),
      Raised(<<"C", "a", "t", "a", "l", "o", "g", " ", "E", "r", "r", "o", "r", ":", " ", "T", "a", "b", "l", "e", " ", "w", "i", "t", "h", " ", "n", "a", "m", "e", " ", "n", "o", "n", "e", "x", "i", "s", "t", "e", "n", "t", "_", "t", "a", "b", "l", "e", " ", "d", "o", "e", "s", " ", "n", "o", "t", " ", "e", "x", "i", "s", "t", "!">>),
      Raised(<<"P", "a", "r", "s", "e", "r", " ", "E", "r", "r", "o", "r", ":", " ", "s", "y", "n", "t", "a", "x", " ", "e", "r", "r", "o", "r", " ", "a", "t", " ", "o", "r", " ", "n", "e", "a", "r", " ", "\"", "S", "E", "L", "E", "C", "\"">>) }

\* the text the child printed, as json.loads reads it (line 86): a JSON
\* object with its keys, another JSON value, or no JSON at all
Stdout(kind, error, columns, rows, row_count, complete, text) ==
    [kind |-> kind, error |-> error, columns |-> columns, rows |-> rows,
     row_count |-> row_count, complete |-> complete, text |-> text]
NotJson(text) == Stdout("not_json", <<>>, <<>>, <<>>, 0, FALSE, text)
JsonNumber == Stdout("number", <<>>, <<>>, <<>>, 0, FALSE, <<>>)
JsonText(text) == Stdout("string", <<>>, <<>>, <<>>, 0, FALSE, text)
JsonArray(items) == Stdout("array", <<>>, <<>>, items, 0, FALSE, <<>>)
JsonObject == Stdout("object", <<>>, <<>>, <<>>, 0, FALSE, <<>>)

CompletedProcess(stdout, stderr, returncode) ==
    [stdout |-> stdout, stderr |-> stderr, returncode |-> returncode]

\* script line 48: str(cell) if cell is not None else None
StrCell(c) ==
    CASE c.t = "int" -> <<IntToStr(c.v)>>
      [] c.t = "str" -> <<c.s>>
      [] c.t = "none" -> <<>>

\* script lines 42-64: what the child prints and how it exits
script_content(e) ==
    IF e.kind = "rows"
    THEN CompletedProcess(
             Stdout("object", <<>>, e.columns,
                    [i \in 1..Len(e.rows) |-> [j \in 1..Len(e.rows[i]) |-> StrCell(e.rows[i][j])]],
                    Len(e.rows), TRUE, <<>>),
             <<>>, 0)
    ELSE CompletedProcess(Stdout("object", <<e.message>>, <<>>, <<>>, 0, TRUE, <<>>), <<>>, 1)

\* a child that ended without running the script to its print: the import
\* of line 36 failed, or the process was killed
DiedProcesses ==
    { CompletedProcess(NotJson(<<>>), <<"T", "r", "a", "c", "e", "b", "a", "c", "k", " ", "(", "m", "o", "s", "t", " ", "r", "e", "c", "e", "n", "t", " ", "c", "a", "l", "l", " ", "l", "a", "s", "t", ")", ":">>, 1),
      CompletedProcess(NotJson(<<>>), <<>>, -9),
      CompletedProcess(NotJson(<<"T", "r", "a", "c", "e", "b", "a", "c", "k", " ", "(", "m", "o", "s", "t", " ", "r", "e", "c", "e", "n", "t", " ", "c", "a", "l", "l", " ", "l", "a", "s", "t", ")", ":">>), <<>>, 1) }

\* a child whose standard output is not what the script prints
GarbledProcesses ==
    { CompletedProcess(NotJson(<<>>), <<>>, 0),
      CompletedProcess(NotJson(<<"w", "a", "r", "n", "i", "n", "g">>), <<>>, 0),
      CompletedProcess(JsonNumber, <<>>, 0),
      CompletedProcess(JsonText(<<"w", "a", "r", "n", "i", "n", "g">>), <<>>, 0),
      CompletedProcess(JsonText(<<"a", "n", " ", "e", "r", "r", "o", "r">>), <<>>, 0),
      CompletedProcess(JsonArray(<<>>), <<>>, 0),
      CompletedProcess(JsonArray(<< <<"e", "r", "r", "o", "r">> >>), <<>>, 0),
      CompletedProcess(JsonObject, <<>>, 0) }

\* a finished child with any standard output, error text and exit code
ReturnCodes == {0, 1, -9}
Stdouts ==
    { p.stdout : p \in { script_content(e) : e \in EngineOutcomes }
                        \cup DiedProcesses \cup GarbledProcesses }
Stderrs == { p.stderr : p \in DiedProcesses }
AnyProcesses ==
    { CompletedProcess(o, err, rc) : o \in Stdouts, err \in Stderrs, rc \in ReturnCodes }

HTTPException(status_code, detail) == [status |-> status_code, detail |-> detail, body |-> <<>>]
Unexpected(text) == HTTPException(500, <<"U", "n", "e", "x", "p", "e", "c", "t", "e", "d", " ", "e", "r", "r", "o", "r", ":", " ">> \o text)
LocalQueryResult(result_data) ==
    [status |-> 200, detail |-> <<>>,
     body |-> <<[columns |-> result_data.columns, rows |-> result_data.rows,
                 row_count |-> result_data.row_count]>>]

\* lines 86-102 and 109-126: the answer, given the finished child
AnswerWithoutErrorCheck(p) ==
    IF p.stdout.kind # "object" THEN Unexpected(<<"a", "r", "g", "u", "m", "e", "n", "t", " ", "a", "f", "t", "e", "r", " ", "*", "*", " ", "m", "u", "s", "t", " ", "b", "e", " ", "a", " ", "m", "a", "p", "p", "i", "n", "g">>)
    ELSE IF ~p.stdout.complete THEN Unexpected(<<"3", " ", "v", "a", "l", "i", "d", "a", "t", "i", "o", "n", " ", "e", "r", "r", "o", "r", "s", " ", "f", "o", "r", " ", "Q", "u", "e", "r", "y", "R", "e", "s", "u", "l", "t">>)
    ELSE LocalQueryResult(p.stdout)
AnswerRewrapped(p) ==
    CASE p.stdout.kind = "not_json" ->
             IF p.returncode # 0
             THEN HTTPException(500, <<"D", "u", "c", "k", "D", "B", " ", "e", "x", "e", "c", "u", "t", "i", "o", "n", " ", "f", "a", "i", "l", "e", "d", ":", " ">> \o (IF p.stderr # <<>> THEN p.stderr ELSE <<"U", "n", "k", "n", "o", "w", "n", " ", "e", "r", "r", "o", "r">>))
             ELSE HTTPException(500, <<"F", "a", "i", "l", "e", "d", " ", "t", "o", " ", "p", "a", "r", "s", "e", " ", "D", "u", "c", "k", "D", "B", " ", "o", "u", "t", "p", "u", "t", ":", " ">> \o <<"E", "x", "p", "e", "c", "t", "i", "n", "g", " ", "v", "a", "l", "u", "e", ":", " ", "l", "i", "n", "e", " ", "1", " ", "c", "o", "l", "u", "m", "n", " ", "1", " ", "(", "c", "h", "a", "r", " ", "0", ")">>)
      [] p.stdout.kind = "number" -> Unexpected(<<"a", "r", "g", "u", "m", "e", "n", "t", " ", "o", "f", " ", "t", "y", "p", "e", " ", "'", "i", "n", "t", "'", " ", "i", "s", " ", "n", "o", "t", " ", "i", "t", "e", "r", "a", "b", "l", "e">>)
      [] p.stdout.kind = "string" ->
             IF Contains(p.stdout.text, <<"e", "r", "r", "o", "r">>)
             THEN Unexpected(<<"s", "t", "r", "i", "n", "g", " ", "i", "n", "d", "i", "c", "e", "s", " ", "m", "u", "s", "t", " ", "b", "e", " ", "i", "n", "t", "e", "g", "e", "r", "s", ",", " ", "n", "o", "t", " ", "'", "s", "t", "r", "'">>)
             ELSE Unexpected(<<"a", "r", "g", "u", "m", "e", "n", "t", " ", "a", "f", "t", "e", "r", " ", "*", "*", " ", "m", "u", "s", "t", " ", "b", "e", " ", "a", " ", "m", "a", "p", "p", "i", "n", "g">>)
      [] p.stdout.kind = "array" ->
             IF \E i \in 1..Len(p.stdout.rows) : p.stdout.rows[i] = <<"e", "r", "r", "o", "r">>
             THEN Unexpected(<<"l", "i", "s", "t", " ", "i", "n", "d", "i", "c", "e", "s", " ", "m", "u", "s", "t", " ", "b", "e", " ", "i", "n", "t", "e", "g", "e", "r", "s", " ", "o", "r", " ", "s", "l", "i", "c", "e", "s", ",", " ", "n", "o", "t", " ", "s", "t", "r">>)
             ELSE Unexpected(<<"a", "r", "g", "u", "m", "e", "n", "t", " ", "a", "f", "t", "e", "r", " ", "*", "*", " ", "m", "u", "s", "t", " ", "b", "e", " ", "a", " ", "m", "a", "p", "p", "i", "n", "g">>)
      [] p.stdout.kind = "object" ->
             IF p.stdout.error # <<>>
             THEN Unexpected(<<"S", "Q", "L", " ", "e", "x", "e", "c", "u", "t", "i", "o", "n", " ", "e", "r", "r", "o", "r", ":", " ">> \o p.stdout.error[1])
             ELSE IF ~p.stdout.complete THEN Unexpected(<<"3", " ", "v", "a", "l", "i", "d", "a", "t", "i", "o", "n", " ", "e", "r", "r", "o", "r", "s", " ", "f", "o", "r", " ", "Q", "u", "e", "r", "y", "R", "e", "s", "u", "l", "t">>)
             ELSE LocalQueryResult(p.stdout)
Answer(p) ==
    CASE p.stdout.kind = "not_json" ->
             IF p.returncode # 0
             THEN HTTPException(500, <<"D", "u", "c", "k", "D", "B", " ", "e", "x", "e", "c", "u", "t", "i", "o", "n", " ", "f", "a", "i", "l", "e", "d", ":", " ">> \o (IF p.stderr # <<>> THEN p.stderr ELSE <<"U", "n", "k", "n", "o", "w", "n", " ", "e", "r", "r", "o", "r">>))
             ELSE HTTPException(500, <<"F", "a", "i", "l", "e", "d", " ", "t", "o", " ", "p", "a", "r", "s", "e", " ", "D", "u", "c", "k", "D", "B", " ", "o", "u", "t", "p", "u", "t", ":", " ">> \o <<"E", "x", "p", "e", "c", "t", "i", "n", "g", " ", "v", "a", "l", "u", "e", ":", " ", "l", "i", "n", "e", " ", "1", " ", "c", "o", "l", "u", "m", "n", " ", "1", " ", "(", "c", "h", "a", "r", " ", "0", ")">>)
      [] p.stdout.kind = "number" -> Unexpected(<<"a", "r", "g", "u", "m", "e", "n", "t", " ", "o", "f", " ", "t", "y", "p", "e", " ", "'", "i", "n", "t", "'", " ", "i", "s", " ", "n", "o", "t", " ", "i", "t", "e", "r", "a", "b", "l", "e">>)
      [] p.stdout.kind = "string" ->
             IF Contains(p.stdout.text, <<"e", "r", "r", "o", "r">>)
             THEN Unexpected(<<"s", "t", "r", "i", "n", "g", " ", "i", "n", "d", "i", "c", "e", "s", " ", "m", "u", "s", "t", " ", "b", "e", " ", "i", "n", "t", "e", "g", "e", "r", "s", ",", " ", "n", "o", "t", " ", "'", "s", "t", "r", "'">>)
             ELSE Unexpected(<<"a", "r", "g", "u", "m", "e", "n", "t", " ", "a", "f", "t", "e", "r", " ", "*", "*", " ", "m", "u", "s", "t", " ", "b", "e", " ", "a", " ", "m", "a", "p", "p", "i", "n", "g">>)
      [] p.stdout.kind = "array" ->
             IF \E i \in 1..Len(p.stdout.rows) : p.stdout.rows[i] = <<"e", "r", "r", "o", "r">>
             THEN Unexpected(<<"l", "i", "s", "t", " ", "i", "n", "d", "i", "c", "e", "s", " ", "m", "u", "s", "t", " ", "b", "e", " ", "i", "n", "t", "e", "g", "e", "r", "s", " ", "o", "r", " ", "s", "l", "i", "c", "e", "s", ",", " ", "n", "o", "t", " ", "s", "t", "r">>)
             ELSE Unexpected(<<"a", "r", "g", "u", "m", "e", "n", "t", " ", "a", "f", "t", "e", "r", " ", "*", "*", " ", "m", "u", "s", "t", " ", "b", "e", " ", "a", " ", "m", "a", "p", "p", "i", "n", "g">>)
      [] p.stdout.kind = "object" ->
             IF p.stdout.error # <<>>
             THEN HTTPException(400, <<"S", "Q", "L", " ", "e", "x", "e", "c", "u", "t", "i", "o", "n", " ", "e", "r", "r", "o", "r", ":", " ">> \o p.stdout.error[1])
             ELSE IF ~p.stdout.complete THEN Unexpected(<<"3", " ", "v", "a", "l", "i", "d", "a", "t", "i", "o", "n", " ", "e", "r", "r", "o", "r", "s", " ", "f", "o", "r", " ", "Q", "u", "e", "r", "y", "R", "e", "s", "u", "l", "t">>)
             ELSE LocalQueryResult(p.stdout)

NoProcess == CompletedProcess(NotJson(<<>>), <<>>, 0)
NoResponse == [status |-> 0, detail |-> <<>>, body |-> <<>>]
NoQueryHist == [cause |-> "none", engine |-> Raised(<<>>)]

InitQueryIdle ==
    /\ queryPc = "idle"
    /\ queryRequest = QueryRequest(<<>>)
    /\ script_path = "none"
    /\ queryProcess = NoProcess
    /\ queryResponse = NoResponse
    /\ queryHist = NoQueryHist

-----------------------------------------------------------------------------

\* no pair of concurrent sessions
Sessions == {1, 2}
NoSession ==
    [thought_buffer |-> <<>>, pending |-> <<>>, out |-> <<>>, genPc |-> "idle", raw |-> <<>>]
InitPairIdle == pair = [of |-> [s \in Sessions |-> NoSession], order |-> <<>>]

\* no call of create_agent
InitAgentsIdle == created = [objects |-> 0, agents |-> <<>>]

\* no request to the chat endpoint
InitChatIdle ==
    /\ chatPc = "idle"
    /\ chatMessage = <<>>
    /\ chatI = 0
    /\ frames = <<>>
    /\ chatHist = [events |-> <<>>, sleeps |-> <<>>, asleep |-> 0]

Init ==
    /\ InitExtractIdle
    /\ InitChatIdle
    /\ InitQueryIdle
    /\ InitPairIdle
    /\ InitAgentsIdle
    /\ sqlPc = "idle"
    /\ toolArgs = [query |-> <<>>, limit |-> <<>>]
    /\ tool = RunSQLTool(toolArgs)
    /\ final_query = <<>>
    /\ sqlResult = NoResult
    /\ sqlExc = NoExc
    /\ InitDemux

\* the generator is suspended at "async for": everything it had to yield was taken
CanPullEarly == genPc = "run"
CanPull == genPc = "run" /\ pending = <<>>

Tagged(events, n) == [i \in 1..Len(events) |-> [ev |-> events[i], src |-> n]]

SegAfter(h, e, n) ==
    IF e.kind = "PartStart" /\ e.part = "text"
    THEN [h EXCEPT !.seg = <<e.text>>, !.segRaw = <<n>>]
    ELSE IF e.kind = "PartDelta" /\ e.part = "text" /\ h.seg # <<>>
    THEN [h EXCEPT !.seg = Append(h.seg, e.text), !.segRaw = Append(h.segRaw, n)]
    ELSE h

\* handle_agent_events lines 235-275: the loop takes raw event e and runs its branch
Handle(e) ==
    LET step == HandleEvent(thought_buffer, e)
        h1 == SegAfter(hist, e, nPulled + 1)
        h2 == IF e.kind = "ToolResult" /\ e.content.shape = "QueryResult"
              THEN [h1 EXCEPT !.qrLog = Append(h1.qrLog, e.content)]
              ELSE h1
    IN /\ nPulled' = nPulled + 1
       /\ thought_buffer' = step.buffer
       /\ pending' = pending \o Tagged(step.events, nPulled + 1)
       /\ hist' = [h2 EXCEPT !.lastRaw = e, !.bufBefore = thought_buffer,
                              !.raws = IF hist.log THEN Append(@, e) ELSE @]

\* the model streams the next raw event
PullRaw(e) ==
    /\ UNCHANGED extractVars
    /\ UNCHANGED chatVars
    /\ UNCHANGED queryVars
    /\ UNCHANGED pairVars
    /\ UNCHANGED agentVars
    /\ CanPull
    /\ sqlPc = "idle"
    /\ nPulled < MaxRaw
    /\ Handle(e)
    /\ agent' = IF e.kind = "PartEnd" /\ e.part = "tool_call"
                THEN [agent EXCEPT !.pendingCalls = @ + 1]
                ELSE agent
    /\ genPc' = genPc
    /\ UNCHANGED <<out>>
    /\ UNCHANGED sqlVars

\* stream_agent_response line 292: the consumer takes the next event
Yield ==
    /\ UNCHANGED extractVars
    /\ UNCHANGED chatVars
    /\ UNCHANGED queryVars
    /\ UNCHANGED pairVars
    /\ UNCHANGED agentVars
    /\ pending # <<>>
    /\ out' = Append(out, Head(pending).ev)
    /\ hist' = [hist EXCEPT !.outSrc = Append(@, Head(pending).src)]
    /\ pending' = Tail(pending)
    /\ genPc' = IF genPc = "failing" /\ Tail(pending) = <<>> THEN "done" ELSE genPc
    /\ UNCHANGED <<thought_buffer, nPulled, agent>>
    /\ UNCHANGED sqlVars

\* the raw sequence ends: both generators return
PullEndFlushes ==
    /\ UNCHANGED extractVars
    /\ UNCHANGED chatVars
    /\ UNCHANGED queryVars
    /\ UNCHANGED pairVars
    /\ UNCHANGED agentVars
    /\ CanPull
    /\ sqlPc = "idle"
    /\ pending' = Tagged(<<Thought(thought_buffer)>>, nPulled)
    /\ genPc' = "failing"
    /\ UNCHANGED <<thought_buffer, out, nPulled, agent, hist>>
    /\ UNCHANGED sqlVars
PullEnd ==
    /\ UNCHANGED extractVars
    /\ UNCHANGED chatVars
    /\ UNCHANGED queryVars
    /\ UNCHANGED pairVars
    /\ UNCHANGED agentVars
    /\ CanPull
    /\ sqlPc = "idle"
    /\ genPc' = "done"
    /\ UNCHANGED <<thought_buffer, pending, out, nPulled, agent, hist>>
    /\ UNCHANGED sqlVars

\* stream_agent_response lines 294-299: what the iteration raised becomes an error event
FailTwice(message) ==
    /\ pending' = pending \o Tagged(<<ErrorEvent(message), ErrorEvent(message)>>, nPulled + 1)
    /\ genPc' = "failing"
    /\ hist' = [hist EXCEPT !.failed = TRUE, !.failMsg = message]
Fail(message) ==
    /\ pending' = pending \o Tagged(<<ErrorEvent(message)>>, nPulled + 1)
    /\ genPc' = "failing"
    /\ hist' = [hist EXCEPT !.failed = TRUE, !.failMsg = message]

\* the raw sequence raises (provider fault, network fault, malformed event)
PullRaise(message) ==
    /\ UNCHANGED extractVars
    /\ UNCHANGED chatVars
    /\ UNCHANGED queryVars
    /\ UNCHANGED pairVars
    /\ UNCHANGED agentVars
    /\ CanPull
    /\ sqlPc = "idle"
    /\ Fail(message)
    /\ UNCHANGED <<thought_buffer, out, nPulled, agent>>
    /\ UNCHANGED sqlVars

\* the agent runs the requested tool: run_sql(RunSQLTool(**args))
AgentCallTool(args) ==
    /\ UNCHANGED extractVars
    /\ UNCHANGED chatVars
    /\ UNCHANGED queryVars
    /\ UNCHANGED pairVars
    /\ UNCHANGED agentVars
    /\ genPc = "run"
    /\ sqlPc = "idle"
    /\ agent.pendingCalls > 0
    /\ agent.nTools < MaxTools
    /\ nPulled < MaxRaw
    /\ agent' = [pendingCalls |-> agent.pendingCalls - 1, nTools |-> agent.nTools + 1]
    /\ toolArgs' = args
    /\ tool' = RunSQLTool(args)
    /\ sqlPc' = "called"
    /\ final_query' = <<>>
    /\ sqlResult' = NoResult
    /\ sqlExc' = NoExc
    /\ hist' = [hist EXCEPT !.posts = <<>>]
    /\ UNCHANGED <<thought_buffer, pending, out, genPc, nPulled>>

\* run_sql returned: the agent delivers FunctionToolResultEvent(result)
PullToolResult ==
    /\ UNCHANGED extractVars
    /\ UNCHANGED chatVars
    /\ UNCHANGED queryVars
    /\ UNCHANGED pairVars
    /\ UNCHANGED agentVars
    /\ CanPull
    /\ sqlPc = "returned"
    /\ Handle(FunctionToolResultEvent(Content("QueryResult", sqlResult)))
    /\ sqlPc' = "idle"
    /\ genPc' = genPc
    /\ UNCHANGED <<out, agent>>
    /\ UNCHANGED <<toolArgs, tool, final_query, sqlResult, sqlExc>>

\* run_sql raised: the exception leaves the raw sequence
PullToolRaise ==
    /\ UNCHANGED extractVars
    /\ UNCHANGED chatVars
    /\ UNCHANGED queryVars
    /\ UNCHANGED pairVars
    /\ UNCHANGED agentVars
    /\ CanPull
    /\ sqlPc = "raised"
    /\ Fail(sqlExc.message)
    /\ sqlPc' = "idle"
    /\ UNCHANGED <<thought_buffer, out, nPulled, agent>>
    /\ UNCHANGED <<toolArgs, tool, final_query, sqlResult, sqlExc>>

\* run_sql raised the ValidationError of QueryResult(**result_data): the
\* agent treats a validation error of a tool as a request to retry and
\* delivers it as a tool result whose content is the retry prompt, or lets it
\* leave the raw sequence (PullToolRaise), depending on its version
RetryPrompt == Content("retry", [columns |-> <<>>, rows |-> <<>>, row_count |-> 0])
PullToolRetry ==
    /\ UNCHANGED extractVars
    /\ UNCHANGED chatVars
    /\ UNCHANGED queryVars
    /\ UNCHANGED pairVars
    /\ UNCHANGED agentVars
    /\ CanPull
    /\ sqlPc = "raised"
    /\ sqlExc.type = "ValidationError"
    /\ Handle(FunctionToolResultEvent(RetryPrompt))
    /\ sqlPc' = "idle"
    /\ genPc' = genPc
    /\ UNCHANGED <<out, agent>>
    /\ UNCHANGED <<toolArgs, tool, final_query, sqlResult, sqlExc>>

Next ==
    \/ \E e \in RawEvents(thought_buffer) : PullRaw(e)
    \/ Yield
    \/ PullEnd
    \/ \E m \in FailureTexts : PullRaise(m)
    \/ \E a \in SessionToolArgs : AgentCallTool(a)
    \/ RunSqlDispatch
    \/ \E resp \in SessionResponses : RunSqlReceive(resp)
    \/ PullToolResult
    \/ PullToolRaise
    \/ PullToolRetry

Spec == Init /\ [][Next]_vars

\* A session whose consumer keeps taking events, whose raw sequence ends, and
\* whose tool round trips complete (the POST has a 30 second timeout): the
\* same actions over fewer inputs.
\* text that is not well-formed markdown: nothing at all, an unclosed fence
\* with a stray backtick, a fence with no newline after the opening marker
MalformedTexts ==
    { <<>>,
      <<BT, BT, BT, "p", "y", "\n", "x", BT>>,
      <<BT, BT, BT, "x", BT, BT, BT>> }

LiveRawEvents ==
    { PartStartEvent("text", <<"x">>),
      PartDeltaEvent("text", <<"a">>),
      PartDeltaEvent("tool_call", <<"{">>),
      PartEndToolCall(<<"r", "u", "n", "_", "s", "q", "l">>, <<"{", "}">>),
      OtherEvent }
    \cup { PartEndText(t) : t \in EndTexts \cup MalformedTexts }

LiveResponses ==
    { StatusResponse(200, Body("result", <<"a">>, << <<"1">> >>, 1, <<>>)),
      StatusResponse(200, ObjectBody),
      StatusResponse(400, Body("detail", <<>>, <<>>, 0, <<"x">>)),
      RequestError(<<"r", "e", "f", "u", "s", "e", "d">>) }

NextLive ==
    \/ \E e \in LiveRawEvents : PullRaw(e)
    \/ Yield
    \/ PullEnd
    \/ \E m \in FailureTexts : PullRaise(m)
    \/ \E a \in SessionToolArgs : AgentCallTool(a)
    \/ RunSqlDispatch
    \/ \E resp \in LiveResponses : RunSqlReceive(resp)
    \/ PullToolResult
    \/ PullToolRaise
    \/ PullToolRetry

LiveFairness ==
    /\ WF_vars(Yield)
    /\ WF_vars(PullEnd)
    /\ WF_vars(RunSqlDispatch)
    /\ WF_vars(\E resp \in LiveResponses : RunSqlReceive(resp))
    /\ WF_vars(PullToolResult)
    /\ WF_vars(PullToolRaise \/ PullToolRetry)

SpecLive == Init /\ [][NextLive]_vars /\ LiveFairness

-----------------------------------------------------------------------------
(* The consumer of stream_agent_response goes away *)

\* The client disconnects: the consumer closes the generator, or its task is
\* cancelled. GeneratorExit or CancelledError is raised where the generator
\* is suspended; neither is an Exception, so the handler of lines 294-299
\* does not run and both generators are left. Events of the current branch
\* that were not yet yielded are never yielded. A run_sql call under way is
\* cancelled with the task, or runs on unobserved.
CloseCaught ==
    /\ UNCHANGED extractVars
    /\ UNCHANGED chatVars
    /\ UNCHANGED queryVars
    /\ UNCHANGED pairVars
    /\ UNCHANGED agentVars
    /\ genPc \in {"run", "failing"}
    /\ genPc' = "closed"
    /\ pending' = <<>>
    /\ out' = Append(out, ErrorEvent(<<>>))
    /\ sqlPc' \in {sqlPc, IF sqlPc = "idle" THEN "idle" ELSE "cancelled"}
    /\ UNCHANGED <<thought_buffer, nPulled, agent, hist>>
    /\ UNCHANGED <<toolArgs, tool, final_query, sqlResult, sqlExc>>
Close ==
    /\ UNCHANGED extractVars
    /\ UNCHANGED chatVars
    /\ UNCHANGED queryVars
    /\ UNCHANGED pairVars
    /\ UNCHANGED agentVars
    /\ genPc \in {"run", "failing"}
    /\ genPc' = "closed"
    /\ pending' = <<>>
    /\ sqlPc' \in {sqlPc, IF sqlPc = "idle" THEN "idle" ELSE "cancelled"}
    /\ UNCHANGED <<thought_buffer, out, nPulled, agent, hist>>
    /\ UNCHANGED <<toolArgs, tool, final_query, sqlResult, sqlExc>>

NextClose ==
    \/ NextLive
    \/ Close

SpecClose == Init /\ [][NextClose]_vars

\* run_sql called once with any tool the model can build
InitSql ==
    /\ InitExtractIdle
    /\ InitChatIdle
    /\ InitQueryIdle
    /\ InitPairIdle
    /\ InitAgentsIdle
    /\ toolArgs \in AllToolArgs
    /\ tool = RunSQLTool(toolArgs)
    /\ sqlPc = "called"
    /\ final_query = <<>>
    /\ sqlResult = NoResult
    /\ sqlExc = NoExc
    /\ InitDemux

NextSql ==
    \/ RunSqlDispatch
    \/ \E resp \in Responses : RunSqlReceive(resp)

SpecSql == InitSql /\ [][NextSql]_vars

-----------------------------------------------------------------------------
(* _extract_code_blocks called directly, on texts put together from fences, *)
(* backticks, newlines, spaces and letters, and on documents made of fenced *)
(* blocks with text between them.                                           *)

RECURSIVE Concat(_)
Concat(ss) == IF ss = <<>> THEN <<>> ELSE Head(ss) \o Concat(Tail(ss))

Pieces == { Fence, <<BT>>, <<"\n">>, <<" ">>, <<"a">> }
FreeDoc(f) == [text |-> Concat(f), parts |-> <<>>, gaps |-> <<>>, structured |-> FALSE]

\* a fenced block: the opening fence, the tag if any, optional spaces and the
\* newline, the content, the closing fence
Tags == { <<>>, <<"p", "y">> }
Seps == { <<"\n">>, <<" ", "\n">> }
Contents == { <<"x">>, <<"\n", "x", " ", "y", "\n">>, <<" ", "\n">> }
Parts == { [tag |-> g, sep |-> b, content |-> c] : g \in Tags, b \in Seps, c \in Contents }
FencedBlock(part) == Fence \o part.tag \o part.sep \o part.content \o Fence

\* the text around the blocks: nothing, or a line of text and a lone backtick;
\* it holds no fence
Gaps == { <<>>, <<"a", "\n", BT>> }

\* gaps[1], block 1, gaps[2], ..., block n, gaps[n+1]
RECURSIVE Document(_, _)
Document(parts, gaps) ==
    IF parts = <<>> THEN gaps[1]
    ELSE gaps[1] \o FencedBlock(parts[1]) \o Document(Tail(parts), Tail(gaps))

StructuredDoc(parts, gaps) ==
    [text |-> Document(parts, gaps), parts |-> parts, gaps |-> gaps, structured |-> TRUE]

InitExtract ==
    /\ InitChatIdle
    /\ InitQueryIdle
    /\ InitPairIdle
    /\ InitAgentsIdle
    /\ extractPc = "called"
    /\ \/ \E k \in 0..MaxPieces : \E f \in [1..k -> Pieces] : extractDoc = FreeDoc(f)
       \/ \E n \in 0..MaxBlocks :
              \E ps \in [1..n -> Parts], gs \in [1..(n + 1) -> Gaps] :
                  extractDoc = StructuredDoc(ps, gs)
    /\ extracted = <<>>
    /\ sqlPc = "idle"
    /\ toolArgs = [query |-> <<>>, limit |-> <<>>]
    /\ tool = RunSQLTool(toolArgs)
    /\ final_query = <<>>
    /\ sqlResult = NoResult
    /\ sqlExc = NoExc
    /\ InitDemux

\* lines 302-325
ExtractCall ==
    /\ extractPc = "called"
    /\ extracted' = _extract_code_blocks(extractDoc.text)
    /\ extractPc' = "returned"
    /\ UNCHANGED extractDoc
    /\ UNCHANGED sqlVars
    /\ UNCHANGED demuxVars
    /\ UNCHANGED chatVars
    /\ UNCHANGED queryVars
    /\ UNCHANGED pairVars
    /\ UNCHANGED agentVars

NextExtract == ExtractCall

SpecExtract == InitExtract /\ [][NextExtract]_vars

-----------------------------------------------------------------------------
(* api/chat.py: the chat endpoint. generate_chunks is a generator that is   *)
(* parked either at a yield (until the response asks for the next chunk) or *)
(* at an await asyncio.sleep (until the timer fires).                       *)

\* str.lower()
LowerChar(c) ==
    IF \E i \in 1..26 : UpperLetters[i] = c
    THEN LowerLetters[CHOOSE i \in 1..26 : UpperLetters[i] = c]
    ELSE c
Lower(s) == [i \in 1..Len(s) |-> LowerChar(s[i])]

\* json.dumps of a str: quoted, with the quote, the backslash and the control
\* characters escaped, so that the result has no line break in it
JsonEscapeCharIdentity(c) == <<c>>
JsonEscapeChar(c) ==
    CASE c = "\"" -> <<"\\", "\"">>
      [] c = "\\" -> <<"\\", "\\">>
      [] c = "\n" -> <<"\\", "n">>
      [] c = "\r" -> <<"\\", "r">>
      [] c = "\t" -> <<"\\", "t">>
      [] OTHER -> <<c>>
JsonString(s) == <<"\"">> \o Concat([i \in 1..Len(s) |-> JsonEscapeChar(s[i])]) \o <<"\"">>

\* json.dumps of a list, given the JSON text of each item
RECURSIVE JsonJoin(_)
JsonJoin(items) ==
    IF items = <<>> THEN <<>>
    ELSE IF Len(items) = 1 THEN items[1]
    ELSE items[1] \o <<",", " ">> \o JsonJoin(Tail(items))
JsonList(items) == <<"[">> \o JsonJoin(items) \o <<"]">>
JsonStrings(ss) == JsonList([i \in 1..Len(ss) |-> JsonString(ss[i])])

TypeChars(type) ==
    CASE type = "thought" -> <<"t", "h", "o", "u", "g", "h", "t">>
      [] type = "code" -> <<"c", "o", "d", "e">>
      [] type = "data" -> <<"d", "a", "t", "a">>
      [] type = "error" -> <<"e", "r", "r", "o", "r">>

\* json.dumps of an event dict, keys in insertion order
JsonDumps(ev) ==
    CASE ev.type = "thought" ->
             <<"{", "\"", "t", "y", "p", "e", "\"", ":", " ">> \o JsonString(TypeChars(ev.type))
             \o <<",", " ", "\"", "c", "o", "n", "t", "e", "n", "t", "\"", ":", " ">> \o JsonString(ev.content) \o <<"}">>
      [] ev.type = "code" ->
             <<"{", "\"", "t", "y", "p", "e", "\"", ":", " ">> \o JsonString(TypeChars(ev.type))
             \o <<",", " ", "\"", "l", "a", "n", "g", "u", "a", "g", "e", "\"", ":", " ">> \o JsonString(ev.language)
             \o <<",", " ", "\"", "c", "o", "n", "t", "e", "n", "t", "\"", ":", " ">> \o JsonString(ev.content) \o <<"}">>
      [] ev.type = "data" ->
             <<"{", "\"", "t", "y", "p", "e", "\"", ":", " ">> \o JsonString(TypeChars(ev.type))
             \o <<",", " ", "\"", "p", "a", "y", "l", "o", "a", "d", "\"", ":", " ", "{", "\"", "c", "o",
      "l", "u", "m", "n", "s", "\"", ":", " ">>
             \o JsonStrings(ev.payload.columns)
             \o <<",", " ", "\"", "r", "o", "w", "s", "\"", ":", " ">>
             \o JsonList([i \in 1..Len(ev.payload.rows) |-> JsonStrings(ev.payload.rows[i])])
             \o <<",", " ", "\"", "r", "o", "w", "_", "c", "o", "u", "n", "t", "\"", ":", " ">>
             \o IntToStr(ev.payload.row_count) \o <<"}", "}">>

\* f"event: {name}\ndata: {json.dumps(ev)}\n\n" (lines 44, 62, 72, 94, 110)
SseFrame(name, ev) ==
    <<"e", "v", "e", "n", "t", ":", " ">> \o name \o <<"\n">> \o <<"d", "a", "t", "a", ":", " ">> \o JsonDumps(ev) \o <<"\n", "\n">>

\* lines 34, 38, 66
user_message(m) == Lower(m)
WantsData(m) ==
    \/ Contains(user_message(m), <<"s", "h", "o", "w", " ", "d", "a", "t", "a">>)
    \/ Contains(user_message(m), <<"d", "a", "t", "a">>)
WantsCodeExact(m) == Contains(m, <<"c", "o", "d", "e">>)
WantsCode(m) ==
    \/ Contains(user_message(m), <<"s", "h", "o", "w", " ", "c", "o", "d", "e">>)
    \/ Contains(user_message(m), <<"c", "o", "d", "e">>)

\* lines 40-43, 68-71, 106-109
DataThought == Thought(<<"I", "'", "l", "l", " ", "s", "h", "o", "w", " ", "y", "o", "u", " ", "s", "o", "m", "e",
      " ", "s", "a", "m", "p", "l", "e", " ", "d", "a", "t", "a", ".">>)
CodeThought == Thought(<<"I", "'", "l", "l", " ", "g", "e", "n", "e", "r", "a", "t", "e", " ", "s", "o", "m", "e",
      " ", "U", "I", " ", "c", "o", "d", "e", " ", "f", "o", "r", " ", "y", "o", "u", ".">>)
DefaultThought(m) == Thought(<<"R", "e", "c", "e", "i", "v", "e", "d", ":", " ">> \o m)

\* lines 48-61
mock_data ==
    [columns |-> << <<"r", "e", "g", "i", "o", "n">>, <<"s", "a", "l", "e", "s">>, <<"d", "a", "t", "e">> >>,
     rows |-> << << <<"N", "o", "r", "t", "h">>, <<"1", "0", "0", "0">>, <<"2", "0", "2", "4", "-", "0", "1", "-", "0", "1">> >>,
                 << <<"S", "o", "u", "t", "h">>, <<"2", "0", "0", "0">>, <<"2", "0", "2", "4", "-", "0", "1", "-", "0", "2">> >>,
                 << <<"E", "a", "s", "t">>, <<"1", "5", "0", "0">>, <<"2", "0", "2", "4", "-", "0", "1", "-", "0", "3">> >>,
                 << <<"W", "e", "s", "t">>, <<"1", "8", "0", "0">>, <<"2", "0", "2", "4", "-", "0", "1", "-", "0", "4">> >> >>,
     row_count |-> 4]

\* lines 76-83
sample_code ==
    <<"e", "x", "p", "o", "r", "t", " ", "d", "e", "f", "a", "u", "l", "t", " ", "f", "u", "n",
      "c", "t", "i", "o", "n", " ", "V", "i", "s", "u", "a", "l", "i", "z", "a", "t", "i", "o",
      "n", "(", "{", " ", "d", "a", "t", "a", " ", "}", ")", " ", "{", "\n", " ", " ", "r",
      "e", "t", "u", "r", "n", " ", "(", "\n", " ", " ", " ", " ", "<", "d", "i", "v", " ",
      "c", "l", "a", "s", "s", "N", "a", "m", "e", "=", "\"", "p", "-", "4", "\"", ">", "\n",
      " ", " ", " ", " ", " ", " ", "<", "h", "2", " ", "c", "l", "a", "s", "s", "N", "a", "m",
      "e", "=", "\"", "t", "e", "x", "t", "-", "2", "x", "l", " ", "f", "o", "n", "t", "-",
      "b", "o", "l", "d", " ", "m", "b", "-", "4", "\"", ">", "D", "a", "t", "a", " ", "V",
      "i", "s", "u", "a", "l", "i", "z", "a", "t", "i", "o", "n", "<", "/", "h", "2", ">",
      "\n", " ", " ", " ", " ", " ", " ", "<", "p", ">", "T", "h", "i", "s", " ", "i", "s",
      " ", "a", " ", "s", "a", "m", "p", "l", "e", " ", "v", "i", "s", "u", "a", "l", "i", "z",
      "a", "t", "i", "o", "n", " ", "c", "o", "m", "p", "o", "n", "e", "n", "t", ".", "<", "/",
      "p", ">", "\n", " ", " ", " ", " ", "<", "/", "d", "i", "v", ">", "\n", " ", " ", ")",
      ";", "\n", "}">>

\* line 86
chunk_size == 20

\* line 88: sample_code[i:i + chunk_size]
Chunk(i) ==
    SubSeq(sample_code, i + 1,
           IF i + chunk_size < Len(sample_code) THEN i + chunk_size ELSE Len(sample_code))

\* where the generator parks next, and what it yields on the way there
Parked(pc, i) == [pc |-> pc, i |-> i, yields |-> <<>>]
Yielded(pc, i, name, ev) ==
    [pc |-> pc, i |-> i, yields |-> <<[frame |-> SseFrame(name, ev), event |-> ev]>>]

\* lines 104-110: the default thought, or the end of the generator
FromL104(m, i) ==
    IF ~WantsData(m) /\ ~WantsCode(m)
    THEN Yielded("Y110", i, <<"t", "h", "o", "u", "g", "h", "t">>, DefaultThought(m))
    ELSE Parked("done", i)

\* lines 87-94: the chunk loop at index i
FromL87(m, i) ==
    IF i < Len(sample_code)
    THEN Yielded("Y94", i, <<"c", "o", "d", "e">>, Code(<<"t", "s", "x">>, Chunk(i)))
    ELSE FromL104(m, i)

\* lines 66-72
FromL66(m, i) ==
    IF WantsCode(m)
    THEN Yielded("Y72", i, <<"t", "h", "o", "u", "g", "h", "t">>, CodeThought)
    ELSE FromL104(m, i)

\* lines 34-44
FromL38(m, i) ==
    IF WantsData(m)
    THEN Yielded("Y44", i, <<"t", "h", "o", "u", "g", "h", "t">>, DataThought)
    ELSE FromL66(m, i)

\* the generator parks at r.pc; slept is 1 when a sleep has just ended
Arrive(r, slept) ==
    /\ chatPc' = r.pc
    /\ chatI' = r.i
    /\ frames' = frames \o [k \in 1..Len(r.yields) |-> r.yields[k].frame]
    /\ chatHist' =
           IF r.yields = <<>>
           THEN [chatHist EXCEPT !.asleep = @ + slept]
           ELSE [events |-> Append(chatHist.events, r.yields[1].event),
                 sleeps |-> Append(chatHist.sleeps, chatHist.asleep + slept),
                 asleep |-> 0]
    /\ UNCHANGED chatMessage

\* the response asks the generator for its next chunk: it runs from where it
\* was parked at a yield (or from the start) to the next yield or await
ChatNextNoSuspend ==
    /\ chatPc \in {"begin", "Y44", "Y62", "Y72", "Y94", "Y110"}
    /\ Arrive(CASE chatPc = "begin" -> FromL38(chatMessage, chatI)
                [] chatPc = "Y44" -> Parked("S45", chatI)
                [] chatPc = "Y62" -> Parked("S63", chatI)
                [] chatPc = "Y72" -> Parked("S73", chatI)
                [] chatPc = "Y94" -> FromL87(chatMessage, chatI + chunk_size)
                [] chatPc = "Y110" -> Parked("done", chatI),
              0)
    /\ UNCHANGED sqlVars
    /\ UNCHANGED demuxVars
    /\ UNCHANGED extractVars
    /\ UNCHANGED queryVars
    /\ UNCHANGED pairVars
    /\ UNCHANGED agentVars
ChatNext ==
    /\ chatPc \in {"begin", "Y44", "Y62", "Y72", "Y94", "Y110"}
    /\ Arrive(CASE chatPc = "begin" -> FromL38(chatMessage, chatI)
                [] chatPc = "Y44" -> Parked("S45", chatI)
                [] chatPc = "Y62" -> Parked("S63", chatI)
                [] chatPc = "Y72" -> Parked("S73", chatI)
                [] chatPc = "Y94" -> Parked("S95", chatI)
                [] chatPc = "Y110" -> Parked("done", chatI),
              0)
    /\ UNCHANGED sqlVars
    /\ UNCHANGED demuxVars
    /\ UNCHANGED extractVars
    /\ UNCHANGED queryVars
    /\ UNCHANGED pairVars
    /\ UNCHANGED agentVars

\* an asyncio.sleep ends (lines 45, 63, 73, 95): the generator runs on to the
\* next yield, or to its end
ChatWake ==
    /\ chatPc \in {"S45", "S63", "S73", "S95"}
    /\ Arrive(CASE chatPc = "S45" -> Yielded("Y62", chatI, <<"d", "a", "t", "a">>, Data(mock_data))
                [] chatPc = "S63" -> FromL66(chatMessage, chatI)
                [] chatPc = "S73" -> FromL87(chatMessage, 0)
                [] chatPc = "S95" -> FromL87(chatMessage, chatI + chunk_size),
              1)
    /\ UNCHANGED sqlVars
    /\ UNCHANGED demuxVars
    /\ UNCHANGED extractVars
    /\ UNCHANGED queryVars
    /\ UNCHANGED pairVars
    /\ UNCHANGED agentVars

ChatMessages ==
    { <<"h", "e", "l", "l", "o">>,
      <<"s", "h", "o", "w", " ", "d", "a", "t", "a">>,
      <<"s", "h", "o", "w", " ", "m", "e", " ", "s", "a", "l", "e", "s", " ", "d", "a", "t",
        "a">>,
      <<"c", "o", "d", "e">>,
      <<"s", "h", "o", "w", " ", "c", "o", "d", "e">>,
      <<"D", "a", "t", "a", " ", "a", "n", "d", " ", "C", "o", "d", "e">>,
      <<"c", "o", "d", "e", ",", " ", "t", "h", "e", "n", " ", "d", "a", "t", "a">>,
      <<"D", "A", "T", "A">>,
      <<"d", "a", "t", " ", "c", "o", "d">>,
      <<>>,
      <<"s", "a", "y", " ", "\"", "h", "i", "\"", "\n", "\\", "o", "k">>,
      <<"c", "r", "e", "a", "t", "e", " ", "a", " ", "b", "a", "r", " ", "c", "h", "a", "r",
        "t">> }

InitSqlIdle ==
    /\ sqlPc = "idle"
    /\ toolArgs = [query |-> <<>>, limit |-> <<>>]
    /\ tool = RunSQLTool(toolArgs)
    /\ final_query = <<>>
    /\ sqlResult = NoResult
    /\ sqlExc = NoExc

InitChat ==
    /\ chatPc = "begin"
    /\ chatMessage \in ChatMessages
    /\ chatI = 0
    /\ frames = <<>>
    /\ chatHist = [events |-> <<>>, sleeps |-> <<>>, asleep |-> 0]
    /\ InitSqlIdle
    /\ InitDemux
    /\ InitExtractIdle
    /\ InitQueryIdle
    /\ InitPairIdle
    /\ InitAgentsIdle

NextChat ==
    \/ ChatNext
    \/ ChatWake

\* the response keeps asking for chunks and every sleep ends (0.1 s, 0.05 s)
SpecChat == InitChat /\ [][NextChat]_vars /\ WF_vars(ChatNext) /\ WF_vars(ChatWake)

-----------------------------------------------------------------------------
(* api/query.py: the steps of the handler *)

Respond(r, cause, e) ==
    /\ queryPc' = "responded"
    /\ queryResponse' = r
    /\ queryHist' = [cause |-> cause, engine |-> e]
    /\ UNCHANGED queryRequest

\* lines 69-71: the temporary file is created and the script written to it.
\* The file may fail to be created (OSError), or be created and then fail to
\* take the script when the text is flushed as the with block closes it
\* (OSError, no space left): that happens before the try of line 73, so the
\* finally clause of 104-107 does not run. Both are answered at 122-126.
QueryWriteScript ==
    /\ UNCHANGED sqlVars
    /\ UNCHANGED demuxVars
    /\ UNCHANGED extractVars
    /\ UNCHANGED chatVars
    /\ UNCHANGED pairVars
    /\ UNCHANGED agentVars
    /\ queryPc = "received"
    /\ \/ /\ queryPc' = "run"
          /\ script_path' = "exists"
          /\ UNCHANGED <<queryRequest, queryProcess, queryResponse, queryHist>>
       \/ /\ Respond(Unexpected(<<"[", "E", "r", "r", "n", "o", " ", "2", "8", "]", " ", "N", "o", " ", "s", "p", "a", "c", "e", " ", "l", "e", "f", "t", " ", "o", "n", " ", "d", "e", "v", "i", "c", "e">>), "write_failed", queryHist.engine)
          /\ script_path' = "exists"
          /\ UNCHANGED queryProcess
       \/ /\ Respond(Unexpected(<<"[", "E", "r", "r", "n", "o", " ", "1", "3", "]", " ", "P", "e", "r", "m", "i", "s", "s", "i", "o", "n", " ", "d", "e", "n", "i", "e", "d">>), "write_failed", queryHist.engine)
          /\ UNCHANGED <<script_path, queryProcess>>

\* lines 76-81: subprocess.run returns the finished child, or raises:
\* ValueError for an argument with a NUL character, OSError when the child
\* cannot be started, TimeoutExpired after 30 s. The finally clause of
\* 104-107 removes the script on the way to the handlers of 112-126.
QueryRun ==
    /\ UNCHANGED sqlVars
    /\ UNCHANGED demuxVars
    /\ UNCHANGED extractVars
    /\ UNCHANGED chatVars
    /\ UNCHANGED pairVars
    /\ UNCHANGED agentVars
    /\ queryPc = "run"
    /\ IF Contains(queryRequest.sql, <<NUL>>)
       THEN /\ Respond(Unexpected(<<"e", "m", "b", "e", "d", "d", "e", "d", " ", "n", "u", "l", "l", " ", "b", "y", "t", "e">>), "spawn_failed", queryHist.engine)
            /\ script_path' = "removed"
            /\ UNCHANGED queryProcess
       ELSE \/ \E e \in EngineOutcomes :
                  /\ queryProcess' = script_content(e)
                  /\ queryHist' = [cause |-> IF e.kind = "rows" THEN "succeeded" ELSE "sql_failed",
                                   engine |-> e]
                  /\ queryPc' = "ran"
                  /\ UNCHANGED <<queryRequest, script_path, queryResponse>>
            \/ \E p \in DiedProcesses \cup GarbledProcesses :
                  /\ queryProcess' = p
                  /\ queryHist' = [cause |-> IF p \in DiedProcesses THEN "died" ELSE "garbled",
                                   engine |-> queryHist.engine]
                  /\ queryPc' = "ran"
                  /\ UNCHANGED <<queryRequest, script_path, queryResponse>>
            \/ /\ Respond(HTTPException(504, <<"Q", "u", "e", "r", "y", " ", "e", "x", "e", "c", "u", "t", "i", "o", "n", " ", "t", "i", "m", "e", "d", " ", "o", "u", "t">>), "timeout", queryHist.engine)
               /\ script_path' = "removed"
               /\ UNCHANGED queryProcess
            \/ /\ Respond(Unexpected(<<"[", "E", "r", "r", "n", "o", " ", "1", "2", "]", " ", "C", "a", "n", "n", "o", "t", " ", "a", "l", "l", "o", "c", "a", "t", "e", " ", "m", "e", "m", "o", "r", "y">>), "spawn_failed", queryHist.engine)
               /\ script_path' = "removed"
               /\ UNCHANGED queryProcess

\* lines 83-107: the output is parsed and answered, and the script removed
QueryAnswer ==
    /\ UNCHANGED sqlVars
    /\ UNCHANGED demuxVars
    /\ UNCHANGED extractVars
    /\ UNCHANGED chatVars
    /\ UNCHANGED pairVars
    /\ UNCHANGED agentVars
    /\ queryPc = "ran"
    /\ Respond(Answer(queryProcess), queryHist.cause, queryHist.engine)
    /\ script_path' = "removed"
    /\ UNCHANGED queryProcess

QueryRequests ==
    { QueryRequest(<<"S", "E", "L", "E", "C", "T", " ", "1", " ", "a", "s", " ", "v", "a", "l", "u", "e", ",", " ", "'", "t", "e", "s", "t", "'", " ", "a", "s", " ", "n", "a", "m", "e">>),
      QueryRequest(<<"S", "E", "L", "E", "C", "T", " ", "*", " ", "F", "R", "O", "M", " ", "n", "o", "n", "e", "x", "i", "s", "t", "e", "n", "t", "_", "t", "a", "b", "l", "e">>),
      QueryRequest(<<>>),
      QueryRequest(<<"S", "E", "L", "E", "C", "T", " ", "4", "2">>),
      QueryRequest(<<"S", "E", "L", "E", "C">> \o <<NUL>>) }

InitQuery ==
    /\ queryPc = "received"
    /\ queryRequest \in QueryRequests
    /\ script_path = "none"
    /\ queryProcess = NoProcess
    /\ queryResponse = NoResponse
    /\ queryHist = NoQueryHist
    /\ InitSqlIdle
    /\ InitDemux
    /\ InitExtractIdle
    /\ InitChatIdle
    /\ InitPairIdle
    /\ InitAgentsIdle

NextQuery ==
    \/ QueryWriteScript
    \/ QueryRun
    \/ QueryAnswer

SpecQuery == InitQuery /\ [][NextQuery]_vars

\* lines 76-81: subprocess.run returns a child that ended with any exit code
\* and any output
QueryRunAny ==
    /\ UNCHANGED sqlVars
    /\ UNCHANGED demuxVars
    /\ UNCHANGED extractVars
    /\ UNCHANGED chatVars
    /\ UNCHANGED pairVars
    /\ UNCHANGED agentVars
    /\ queryPc = "run"
    /\ ~Contains(queryRequest.sql, <<NUL>>)
    /\ \E p \in AnyProcesses :
          /\ queryProcess' = p
          /\ queryHist' = [cause |-> "returned", engine |-> queryHist.engine]
          /\ queryPc' = "ran"
          /\ UNCHANGED <<queryRequest, script_path, queryResponse>>

NextQueryTotal ==
    \/ QueryWriteScript
    \/ QueryRun
    \/ QueryRunAny
    \/ QueryAnswer

SpecQueryTotal == InitQuery /\ [][NextQueryTotal]_vars

-----------------------------------------------------------------------------
(* A session whose raw events are recorded as they are pulled *)

StreamRawEvents ==
    { PartStartEvent("text", <<"x">>),
      PartDeltaEvent("text", <<"a">>),
      PartEndToolCall(<<"r", "u", "n", "_", "s", "q", "l">>, <<"{", "}">>) }
    \cup { PartEndText(t) : t \in EndTexts }

InitStream ==
    /\ InitExtractIdle
    /\ InitChatIdle
    /\ InitQueryIdle
    /\ InitPairIdle
    /\ InitAgentsIdle
    /\ InitSqlIdle
    /\ thought_buffer = <<>>
    /\ pending = <<>>
    /\ out = <<>>
    /\ genPc = "run"
    /\ nPulled = 0
    /\ agent = [pendingCalls |-> 0, nTools |-> 0]
    /\ hist = [NoHist EXCEPT !.log = TRUE]

NextStream ==
    \/ \E e \in StreamRawEvents : PullRaw(e)
    \/ Yield
    \/ PullEnd
    \/ \E m \in FailureTexts : PullRaise(m)
    \/ \E a \in SessionToolArgs : AgentCallTool(a)
    \/ RunSqlDispatch
    \/ \E resp \in LiveResponses : RunSqlReceive(resp)
    \/ PullToolResult
    \/ PullToolRaise
    \/ PullToolRetry

SpecStream == InitStream /\ [][NextStream]_vars

-----------------------------------------------------------------------------
(* A session of text parts whose texts hold code blocks: the agent ends a   *)
(* part with the content it streamed (start content plus deltas), or with   *)
(* another content.                                                         *)

PartStartTexts == { <<BT, BT, BT, "\n", "x">>, <<"n">> }
PartDeltaTexts == { <<"y", BT, BT, BT>>, <<BT, BT, BT, "\n", "z", BT, BT, BT>> }
OtherEndText == <<BT, BT, BT, "\n", "q", "\n", BT, BT, BT>>

\* the content the current part has streamed so far
StreamedContent == Concat(hist.seg)

PartRawEvents ==
    { PartStartEvent("text", t) : t \in PartStartTexts }
    \cup { PartDeltaEvent("text", t) : t \in PartDeltaTexts }
    \cup { PartEndText(StreamedContent), PartEndText(OtherEndText) }
    \cup { PartEndToolCall(<<"r", "u", "n", "_", "s", "q", "l">>, <<"{", "}">>) }

NextPart ==
    \/ \E e \in PartRawEvents : PullRaw(e)
    \/ Yield
    \/ PullEnd

SpecPart == Init /\ [][NextPart]_vars

-----------------------------------------------------------------------------
(* Two requests at once: each has its own call of handle_agent_events, with *)
(* its own raw sequence; the event loop interleaves their steps.            *)

MaxPairRaw == 2

PairRawEvents(buf) ==
    { PartStartEvent("text", <<"x">>),
      PartDeltaEvent("text", <<"a">>),
      PartDeltaEvent("text", <<"b">>),
      PartEndText(buf) }

\* line 234: thought_buffer is a local variable of the call
BufferOfFirstSession(p, s) == p.of[1].thought_buffer
BufferOf(p, s) == p.of[s].thought_buffer

\* lines 235-275 for session s: the loop takes raw event e and runs its branch
PairPull(s, e) ==
    /\ UNCHANGED sqlVars
    /\ UNCHANGED demuxVars
    /\ UNCHANGED extractVars
    /\ UNCHANGED chatVars
    /\ UNCHANGED queryVars
    /\ UNCHANGED agentVars
    /\ pair.of[s].genPc = "run"
    /\ pair.of[s].pending = <<>>
    /\ Len(pair.of[s].raw) < MaxPairRaw
    /\ LET step == HandleEvent(BufferOf(pair, s), e)
       IN  pair' = [of |-> [pair.of EXCEPT ![s] =
                               [@ EXCEPT !.thought_buffer = step.buffer,
                                         !.pending = step.events,
                                         !.raw = Append(@, e)]],
                    order |-> Append(pair.order, s)]

\* session s yields its next event to its consumer
PairYield(s) ==
    /\ UNCHANGED sqlVars
    /\ UNCHANGED demuxVars
    /\ UNCHANGED extractVars
    /\ UNCHANGED chatVars
    /\ UNCHANGED queryVars
    /\ UNCHANGED agentVars
    /\ pair.of[s].pending # <<>>
    /\ pair' = [pair EXCEPT !.of[s] = [@ EXCEPT !.out = Append(@, Head(pair.of[s].pending)),
                                                !.pending = Tail(@)]]

\* the raw sequence of session s ends
PairEnd(s) ==
    /\ UNCHANGED sqlVars
    /\ UNCHANGED demuxVars
    /\ UNCHANGED extractVars
    /\ UNCHANGED chatVars
    /\ UNCHANGED queryVars
    /\ UNCHANGED agentVars
    /\ pair.of[s].genPc = "run"
    /\ pair.of[s].pending = <<>>
    /\ pair' = [pair EXCEPT !.of[s].genPc = "done"]

InitPair ==
    /\ pair = [of |-> [s \in Sessions |-> [NoSession EXCEPT !.genPc = "run"]], order |-> <<>>]
    /\ InitSqlIdle
    /\ InitDemux
    /\ InitExtractIdle
    /\ InitChatIdle
    /\ InitQueryIdle
    /\ InitAgentsIdle

NextPair ==
    \/ \E s \in Sessions : \E e \in PairRawEvents(pair.of[s].thought_buffer) : PairPull(s, e)
    \/ \E s \in Sessions : PairYield(s)
    \/ \E s \in Sessions : PairEnd(s)

SpecPair == InitPair /\ [][NextPair]_vars

-----------------------------------------------------------------------------
(* create_agent (llm_client.py lines 186-230) *)

MaxAgents == 3

\* os.getenv(name, default): an unset variable is <<>>
Getenv(value, default) == IF value = <<>> THEN default ELSE value[1]
Environments ==
    [AWS_REGION : {<<>>, <<"eu-west-1">>, <<"us-east-1">>},
     BEDROCK_MODEL_ID : {<<>>, <<"anthropic.claude-3-haiku-20240307-v1:0">>}]

\* lines 208-228: the provider, the settings, the model and the agent are
\* constructed in this order; n objects exist before the call
BedrockProvider(n, region_name) == [id |-> n + 1, region_name |-> region_name]
BedrockModelSettings(n) == [id |-> n + 2, temperature |-> "0.7", max_tokens |-> 4096]
BedrockConverseModel(n, model_name, provider, settings) ==
    [id |-> n + 3, model_name |-> model_name, provider |-> provider, settings |-> settings]
Agent(n, model, tools) ==
    [id |-> n + 4, model |-> model, system_prompt |-> "get_base_system_prompt()",
     tools |-> tools]

AgentReturnedCached(n, env, agents) ==
    IF agents # <<>> THEN agents[1]
    ELSE Agent(n,
               BedrockConverseModel(
                   n,
                   Getenv(env.BEDROCK_MODEL_ID, "anthropic.claude-3-5-sonnet-20241022-v2:0"),
                   BedrockProvider(n, Getenv(env.AWS_REGION, "us-west-2")),
                   BedrockModelSettings(n)),
               <<"run_sql">>)
AgentReturned(n, env, agents) ==
    Agent(n,
          BedrockConverseModel(
              n,
              Getenv(env.BEDROCK_MODEL_ID, "anthropic.claude-3-5-sonnet-20241022-v2:0"),
              BedrockProvider(n, Getenv(env.AWS_REGION, "us-west-2")),
              BedrockModelSettings(n)),
          <<"run_sql">>)

create_agent(env) ==
    /\ UNCHANGED sqlVars
    /\ UNCHANGED demuxVars
    /\ UNCHANGED extractVars
    /\ UNCHANGED chatVars
    /\ UNCHANGED queryVars
    /\ UNCHANGED pairVars
    /\ Len(created.agents) < MaxAgents
    /\ created' = [objects |-> created.objects + 4,
                   agents |-> Append(created.agents,
                                     AgentReturned(created.objects, env, created.agents))]

InitAgents ==
    /\ InitAgentsIdle
    /\ InitSqlIdle
    /\ InitDemux
    /\ InitExtractIdle
    /\ InitChatIdle
    /\ InitQueryIdle
    /\ InitPairIdle

NextAgents == \E env \in Environments : create_agent(env)

SpecAgents == InitAgents /\ [][NextAgents]_vars

-----------------------------------------------------------------------------
(* Properties of run_sql, checked under SpecSql *)

Dispatched == sqlPc # "called"

\* the limiting clause was appended to the dispatched query
LimitApplied == Dispatched /\ final_query # tool.query

\* q holds the keyword LIMIT, in any letter case, as a token of its own
HasLimitToken(q) ==
    \E i \in 1..(Len(q) - 4) :
        /\ Upper(SubSeq(q, i, i + 4)) = <<"L", "I", "M", "I", "T">>
        /\ (i = 1 \/ ~WordChar(q[i - 1]))
        /\ (i + 4 = Len(q) \/ ~WordChar(q[i + 5]))

\* q, trimmed and compared case-insensitively, starts with SELECT
StartsWithSelect(q) ==
    LET t == Strip(q)
    IN /\ Len(t) >= 6
       /\ Upper(SubSeq(t, 1, 6)) = <<"S", "E", "L", "E", "C", "T">>

\* C6: the limiting clause is appended if and only if limit > 0, the trimmed
\* query starts with SELECT (case-insensitively) and the query does not
\* already contain LIMIT as a token.
C6_LimitIffPolicy ==
    Dispatched =>
        (LimitApplied <=> /\ tool.limit > 0
                          /\ StartsWithSelect(tool.query)
                          /\ ~HasLimitToken(tool.query))

\* the value of a sequence of decimal digits
RECURSIVE DecimalValue(_)
DecimalValue(d) ==
    IF d = <<>> THEN 0
    ELSE 10 * DecimalValue(SubSeq(d, 1, Len(d) - 1))
         + (CHOOSE v \in 0..9 : Digits[v + 1] = d[Len(d)])

IsDecimal(d) ==
    /\ Len(d) >= 1
    /\ \A i \in 1..Len(d) : \E v \in 0..9 : Digits[v + 1] = d[i]
    /\ (Len(d) > 1 => d[1] # "0")

\* final_query is base, then " LIMIT ", then the decimal digits of tool.limit
IsLimited(base) ==
    /\ Len(final_query) > Len(base) + 7
    /\ SubSeq(final_query, 1, Len(base)) = base
    /\ SubSeq(final_query, Len(base) + 1, Len(base) + 7) = <<" ", "L", "I", "M", "I", "T", " ">>
    /\ LET d == SubSeq(final_query, Len(base) + 8, Len(final_query))
       IN IsDecimal(d) /\ DecimalValue(d) = tool.limit

\* C7 as stated: when the clause is applied, the dispatched query is the
\* original query with exactly one trailing ';' removed if one is present,
\* followed by " LIMIT " and the numeric limit.
C7_OneTerminatorStripped ==
    LimitApplied =>
        LET q == tool.query
            base == IF Len(q) > 0 /\ q[Len(q)] = ";" THEN SubSeq(q, 1, Len(q) - 1) ELSE q
        IN IsLimited(base)

\* C7 amended: when the clause is applied, the dispatched query is the
\* original query with all of its trailing ';' characters removed (a ';'
\* that is followed by whitespace is not trailing and stays), followed by
\* " LIMIT " and the decimal limit.
C7_AllTerminatorsStripped ==
    LimitApplied =>
        \E n \in 0..Len(tool.query) :
            LET base == SubSeq(tool.query, 1, n)
            IN /\ \A i \in (n + 1)..Len(tool.query) : tool.query[i] = ";"
               /\ (n > 0 => base[n] # ";")
               /\ IsLimited(base)

C7_Witness ==
    /\ LimitApplied
    /\ Len(tool.query) > 2
    /\ tool.query[Len(tool.query)] = ";"
    /\ tool.query[Len(tool.query) - 1] = ";"
    /\ tool.limit = 10

\* C8: a query that, trimmed, does not start with SELECT, and any query with
\* limit <= 0, is dispatched character for character; a request built
\* without a limit uses 1000.
C8_VerbatimAndDefault ==
    /\ Dispatched /\ (~StartsWithSelect(tool.query) \/ tool.limit <= 0)
           => final_query = tool.query
    /\ toolArgs.limit = <<>> => tool.limit = 1000
    /\ LimitApplied /\ toolArgs.limit = <<>>
           => SubSeq(final_query, Len(final_query) - 10, Len(final_query))
                  = <<" ", "L", "I", "M", "I", "T", " ", "1", "0", "0", "0">>

C8_Witness ==
    /\ Dispatched
    /\ ~StartsWithSelect(tool.query)
    /\ toolArgs.limit = <<>>
    /\ tool.limit > 0
    /\ tool.query[Len(tool.query)] = ";"
    /\ final_query = tool.query

\* run_sql raised on a failure response that carries an error description
RaisedOnDetail ==
    /\ sqlPc = "raised"
    /\ hist.response.kind = "status"
    /\ hist.response.status >= 400
    /\ hist.response.body.shape = "detail"

\* C9 as stated: on a structured failure response with a detail, the
\* failure's message is that detail verbatim, nothing added or removed.
C9_DetailVerbatim ==
    RaisedOnDetail => sqlExc.message = hist.response.body.detail

\* C9 amended: on a structured failure response with a detail, the failure's
\* message is "SQL execution error: " followed by that detail verbatim.
C9_DetailAfterPrefix ==
    RaisedOnDetail =>
        /\ sqlExc.type = "ValueError"
        /\ Len(sqlExc.message) = 21 + Len(hist.response.body.detail)
        /\ SubSeq(sqlExc.message, 1, 21)
               = <<"S", "Q", "L", " ", "e", "x", "e", "c", "u", "t", "i", "o", "n", " ",
                   "e", "r", "r", "o", "r", ":", " ">>
        /\ SubSeq(sqlExc.message, 22, Len(sqlExc.message)) = hist.response.body.detail

C9_Witness ==
    /\ RaisedOnDetail
    /\ hist.response.status = 400
    /\ Len(hist.response.body.detail) > 0

\* the messages run_sql produces for failure responses of the engine
StructuredFailureMessages ==
    { SqlError(r).message : r \in { x \in Responses : x.kind = "status" /\ x.status >= 400 } }

\* C10: on a connectivity failure run_sql raises a "Failed to connect ..."
\* message that no structured failure response produces, and returns no
\* QueryResult.
C10_ConnectDistinct ==
    (sqlPc \in {"returned", "raised"} /\ hist.response.kind = "request_error") =>
        /\ sqlPc = "raised"
        /\ sqlResult = NoResult
        /\ Len(sqlExc.message) >= 17
        /\ SubSeq(sqlExc.message, 1, 17)
               = <<"F", "a", "i", "l", "e", "d", " ", "t", "o", " ", "c", "o", "n", "n",
                   "e", "c", "t">>
        /\ sqlExc.message \notin StructuredFailureMessages

C10_Witness ==
    /\ sqlPc = "raised"
    /\ hist.response.kind = "request_error"
    /\ hist.response.text \in Details

\* the exception types that are ValueError or a subclass of it
IsValueError(type) == type \in {"ValueError", "JSONDecodeError", "ValidationError"}

\* a success status whose body is not a QueryResult with conforming types
NonConforming(resp) ==
    resp.kind = "status" /\ resp.status < 400 /\ resp.body.shape # "result"

\* C11: when the engine answers with a success status and a body that is not
\* a conforming QueryResult (a field missing or wrongly typed, or not an
\* object), run_sql raises the failure kind of its other failures
\* (ValueError) and returns no QueryResult, coerced or partial.
C11_NonConformingFails ==
    (sqlPc \in {"returned", "raised"} /\ NonConforming(hist.response)) =>
        /\ sqlPc = "raised"
        /\ sqlResult = NoResult
        /\ IsValueError(sqlExc.type)

-----------------------------------------------------------------------------
(* Properties of the session, checked under Spec *)

\* the indices of the events of out that raw event n triggered
OutOf(n) == { j \in 1..Len(out) : hist.outSrc[j] = n }

\* everything raw event n triggered has been yielded
Settled(n) == \A i \in 1..Len(pending) : pending[i].src # n

\* start content + d1 + ... + d(i-1) of the current segment
RECURSIVE SegPrefix(_)
SegPrefix(i) == IF i = 0 THEN <<>> ELSE SegPrefix(i - 1) \o hist.seg[i]

\* C1: a PartStart{TextPart{c0}} followed by k text deltas d1..dk yields
\* exactly k+1 Thought events, one per raw event, the i-th carrying
\* c0 + d1 + ... + di (the whole buffer, not the delta).
C1_CumulativeThoughts ==
    \A i \in 1..Len(hist.seg) :
        LET n == hist.segRaw[i]
            expected == [type |-> "thought", content |-> SegPrefix(i)]
        IN IF Settled(n)
           THEN \E j \in 1..Len(out) : OutOf(n) = {j} /\ out[j] = expected
           ELSE OutOf(n) = {} /\ pending = <<[ev |-> expected, src |-> n]>>

C1_Witness ==
    /\ hist.seg = << <<>>, <<"a">>, <<"b">>, <<"c">> >>
    /\ pending = <<>>
    /\ out = << [type |-> "thought", content |-> <<>>],
                [type |-> "thought", content |-> <<"a">>],
                [type |-> "thought", content |-> <<"a", "b">>],
                [type |-> "thought", content |-> <<"a", "b", "c">>] >>

ErrorsIn(s) == { i \in 1..Len(s) : s[i].type = "error" }

\* C2: when iterating the raw sequence raises, at any position, the output
\* holds exactly one Error event, it is the last event, it carries stage
\* "llm_processing" and the message of the failure, and the stream has ended.
C2_SingleTerminalError ==
    /\ (hist.failed /\ genPc = "done") =>
           /\ pending = <<>>
           /\ Len(out) > 0
           /\ ErrorsIn(out) = {Len(out)}
           /\ out[Len(out)] = [type |-> "error", message |-> hist.failMsg,
                               stage |-> "llm_processing"]
    /\ (hist.failed /\ genPc # "done") =>
           /\ genPc = "failing"
           /\ ErrorsIn(out) = {}
           /\ Len(pending) = 1
           /\ pending[1].ev.type = "error"
    /\ ErrorsIn(out) # {} => (hist.failed /\ genPc = "done")

C2_Witness ==
    /\ hist.failed
    /\ genPc = "done"
    /\ hist.failMsg = <<"b", "o", "o", "m">>
    /\ Len(out) = 3
    /\ out[3].type = "error"

\* C3: protocol events come out in the order of the raw events that
\* triggered them, and everything raw event i triggered is out before raw
\* event i+1 is pulled: nothing is held back across raw events.
C3_Order ==
    /\ Len(hist.outSrc) = Len(out)
    /\ \A i, j \in 1..Len(out) : i < j => hist.outSrc[i] <= hist.outSrc[j]
    /\ \A i \in 1..Len(pending) :
           pending[i].ev.type # "error" => pending[i].src = nPulled
    /\ \A i \in 1..Len(out) : out[i].type # "error" => hist.outSrc[i] <= nPulled

C3_Witness ==
    /\ Len(out) = 4
    /\ hist.outSrc[1] < hist.outSrc[2]
    /\ hist.outSrc[2] = hist.outSrc[3]
    /\ hist.outSrc[3] < hist.outSrc[4]
    /\ out[2].type = "code"
    /\ out[3].type = "code"

IsData(e) == e.type = "data"
AllEmitted == out \o [i \in 1..Len(pending) |-> pending[i].ev]

\* C4: every ToolResult whose content is a QueryResult triggers exactly one
\* Data event with columns, rows and row_count copied from it, and a
\* ToolResult of any other shape triggers nothing: the Data events are, in
\* order, the QueryResult-carrying ToolResult events.
C4_OneDataPerQueryResult ==
    LET d == SelectSeq(AllEmitted, IsData)
    IN /\ Len(d) = Len(hist.qrLog)
       /\ \A i \in 1..Len(d) :
              d[i].payload = [columns |-> hist.qrLog[i].columns,
                              rows |-> hist.qrLog[i].rows,
                              row_count |-> hist.qrLog[i].row_count]
       /\ (hist.lastRaw.kind = "ToolResult" /\ hist.lastRaw.content.shape # "QueryResult") =>
              /\ OutOf(nPulled) = {}
              /\ \A i \in 1..Len(pending) : pending[i].src # nPulled

C4_Witness ==
    /\ Len(SelectSeq(out, IsData)) = 1
    /\ hist.lastRaw.kind = "ToolResult"
    /\ hist.lastRaw.content.shape = "dict"
    /\ pending = <<>>

\* C5: every Data event emitted for a QueryResult that run_sql produced has
\* row_count = length(rows) and every row as long as columns, whatever
\* conforming-typed response the engine returned.
C5_DataConsistent ==
    \A i \in 1..Len(out) :
        out[i].type = "data" =>
            /\ out[i].payload.row_count = Len(out[i].payload.rows)
            /\ \A r \in 1..Len(out[i].payload.rows) :
                   Len(out[i].payload.rows[r]) = Len(out[i].payload.columns)

\* C12: once a run_sql call of the session has failed (SQL error,
\* connectivity failure or malformed result) and the failure was handed to
\* the session, the stream is ending or has ended, and when it has ended its
\* last event is the only Error event.
C12_ToolFailureEndsWithError ==
    (hist.toolFailed /\ sqlPc = "idle") =>
        /\ genPc \in {"failing", "done"}
        /\ genPc = "done" =>
               /\ Len(out) > 0
               /\ out[Len(out)].type = "error"
               /\ ErrorsIn(out) = {Len(out)}

\* the events raw event n triggered, in the order they were produced
EmittedBy(n) ==
    LET all == [i \in 1..Len(out) |-> [ev |-> out[i], src |-> hist.outSrc[i]]] \o pending
        FromN(x) == x.src = n
        sel == SelectSeq(all, FromN)
    IN [i \in 1..Len(sel) |-> sel[i].ev]

\* the raw event pulled last is of this kind, for this kind of part
LastRawIs(kind, part) ==
    nPulled > 0 /\ hist.lastRaw.kind = kind /\ hist.lastRaw.part = part

\* C13: the end of a text part triggers exactly one Code event per block the
\* extractor returns for the content of the part (not for the buffer), in
\* document order, with the language and content of the block; nothing when
\* there is no block; the buffer is left as it was.
C13_CodePerBlock ==
    LastRawIs("PartEnd", "text") =>
        LET blocks == _extract_code_blocks(hist.lastRaw.text)
        IN /\ EmittedBy(nPulled) =
                  [i \in 1..Len(blocks) |->
                      [type |-> "code", language |-> blocks[i].language,
                       content |-> blocks[i].content]]
           /\ thought_buffer = hist.bufBefore

C13_Witness ==
    /\ LastRawIs("PartEnd", "text")
    /\ thought_buffer = <<"x", "a">>
    /\ hist.lastRaw.text # thought_buffer
    /\ pending = <<>>
    /\ EmittedBy(nPulled) = << [type |-> "code", language |-> <<"p", "y">>, content |-> <<"x">>],
                               [type |-> "code", language |-> <<"t", "s", "x">>, content |-> <<"y">>] >>

\* C14: the end of a tool-call part triggers exactly one Thought whose content
\* is "Calling tool: ", the tool name, " with args: " and the args of the
\* part, nothing of the buffer; the buffer is left as it was.
C14_ToolCallNarration ==
    LastRawIs("PartEnd", "tool_call") =>
        /\ EmittedBy(nPulled) =
               << [type |-> "thought",
                   content |-> <<"C", "a", "l", "l", "i", "n", "g", " ", "t", "o", "o", "l", ":", " ">>
                               \o hist.lastRaw.tool_name
                               \o <<" ", "w", "i", "t", "h", " ", "a", "r", "g", "s", ":", " ">>
                               \o hist.lastRaw.args] >>
        /\ thought_buffer = hist.bufBefore

C14_Witness ==
    /\ LastRawIs("PartEnd", "tool_call")
    /\ thought_buffer = <<"x", "b">>
    /\ pending = <<>>
    /\ Len(out) = 3
    /\ out[3].content = <<"C", "a", "l", "l", "i", "n", "g", " ", "t", "o", "o", "l", ":", " ",
                          "r", "u", "n", "_", "s", "q", "l",
                          " ", "w", "i", "t", "h", " ", "a", "r", "g", "s", ":", " ",
                          "{", "q", "}">>

\* C15: the start of a text part sets the buffer to exactly the content of
\* the part and triggers the Thought of that content, whatever was
\* accumulated before; from then on the buffer is the text of the current
\* part only (its start content and its deltas).
C15_StartResetsBuffer ==
    /\ LastRawIs("PartStart", "text") =>
           /\ thought_buffer = hist.lastRaw.text
           /\ EmittedBy(nPulled) = << [type |-> "thought", content |-> hist.lastRaw.text] >>
    /\ hist.seg # <<>> => thought_buffer = SegPrefix(Len(hist.seg))

C15_Witness ==
    /\ LastRawIs("PartStart", "text")
    /\ nPulled = 4
    /\ hist.bufBefore = <<"a">>
    /\ thought_buffer = <<"x">>
    /\ Len(out) = 4
    /\ out[2] = [type |-> "thought", content |-> <<"a">>]
    /\ out[3].content[1] = "C"
    /\ out[4] = [type |-> "thought", content |-> <<"x">>]

\* a raw event none of the branches of the demultiplexer is for
Ignored(e) ==
    ~ \/ e.kind \in {"PartStart", "PartDelta"} /\ e.part = "text"
      \/ e.kind = "PartEnd" /\ e.part \in {"text", "tool_call"}
      \/ e.kind = "ToolResult"

\* C16: a raw event that is not the start or a delta of a text part, the end
\* of a text or tool-call part, or a tool result, triggers no protocol event
\* and leaves the buffer as it was.
C16_OtherEventsIgnored ==
    (nPulled > 0 /\ Ignored(hist.lastRaw)) =>
        /\ EmittedBy(nPulled) = <<>>
        /\ thought_buffer = hist.bufBefore

C16_Witness ==
    /\ LastRawIs("PartStart", "tool_call")
    /\ thought_buffer = <<"x", "c">>
    /\ pending = <<>>
    /\ Len(out) = 2

-----------------------------------------------------------------------------
(* Termination of the session, checked under SpecLive *)

IsNotError(e) == e.type # "error"

\* what handle_agent_events itself has produced so far
DemuxEmitted == SelectSeq(AllEmitted, IsNotError)

\* a fenced block takes at least 8 characters, any other raw event triggers
\* at most one event
MaxEmittedBy(e) ==
    IF e.kind = "PartEnd" /\ e.part = "text" THEN Len(e.text) \div 8 ELSE 1

\* C17: when the raw sequence ends or raises, the protocol sequence ends too;
\* each raw event triggers a bounded number of protocol events, and the
\* demultiplexer produces nothing at or after the end of its input.
C17_OutputEndsWithInput ==
    /\ <>(genPc = "done")
    /\ [](Len(EmittedBy(nPulled)) <= MaxEmittedBy(hist.lastRaw))
    /\ [][genPc' # "run" => DemuxEmitted' = DemuxEmitted /\ nPulled' = nPulled]_vars
    /\ [][genPc = "done" => UNCHANGED <<out, pending, genPc>>]_vars

C17_Witness ==
    /\ genPc = "done"
    /\ ~hist.failed
    /\ nPulled = 3
    /\ Len(out) = 4
    /\ pending = <<>>
    /\ out[3].type = "code"
    /\ out[4].type = "code"

\* C23: every event stream_agent_response produces is of one of the four
\* types and has exactly the fields of its type: thought has content; code
\* has language and content; data has a payload of columns, rows and
\* row_count; error has message and stage.
C23_EventVariants ==
    \A i \in 1..Len(AllEmitted) :
        LET ev == AllEmitted[i]
        IN \/ ev.type = "thought" /\ DOMAIN ev = {"type", "content"}
           \/ ev.type = "code" /\ DOMAIN ev = {"type", "language", "content"}
           \/ /\ ev.type = "data"
              /\ DOMAIN ev = {"type", "payload"}
              /\ DOMAIN ev.payload = {"columns", "rows", "row_count"}
           \/ ev.type = "error" /\ DOMAIN ev = {"type", "message", "stage"}

C23_Witness ==
    /\ genPc = "done"
    /\ { out[i].type : i \in 1..Len(out) } = {"thought", "code", "data", "error"}

\* C22: malformed text never makes the extractor or the demultiplexer fail:
\* for the empty string, an unclosed fence, a fence without a newline after
\* the opening marker and stray backticks the extractor returns the empty
\* list, the end of a text part triggers Code events only, and an Error
\* event is there only when the raw sequence or the tool raised.
C22_MalformedTextNoError ==
    /\ \A t \in MalformedTexts : _extract_code_blocks(t) = <<>>
    /\ LastRawIs("PartEnd", "text") =>
           /\ \A i \in 1..Len(EmittedBy(nPulled)) : EmittedBy(nPulled)[i].type = "code"
           /\ hist.lastRaw.text \in MalformedTexts => EmittedBy(nPulled) = <<>>
    /\ ErrorsIn(AllEmitted) # {} => hist.failed

C22_Witness ==
    /\ LastRawIs("PartEnd", "text")
    /\ hist.lastRaw.text = <<BT, BT, BT, "p", "y", "\n", "x", BT>>
    /\ genPc = "done"
    /\ ~hist.failed
    /\ Len(out) = 2
    /\ ErrorsIn(out) = {}

-----------------------------------------------------------------------------
(* Properties of _extract_code_blocks, checked under SpecExtract *)

Returned == extractPc = "returned"

\* the content of the block is more than whitespace
NonBlank(part) == \E i \in 1..Len(part.content) : part.content[i] \notin Whitespace

\* the blocks of the document that have something in them, in order
Kept == SelectSeq(extractDoc.parts, NonBlank)

\* C18: for a text made of N fenced blocks of non-empty content with text
\* that holds no fence between them, the extractor returns N entries, the
\* i-th for the i-th block; for a text without any fence it returns nothing.
C18_OneEntryPerBlock ==
    Returned =>
        /\ (extractDoc.structured /\ Kept = extractDoc.parts) =>
               /\ Len(extracted) = Len(extractDoc.parts)
               /\ \A i \in 1..Len(extracted) :
                      extracted[i].content = Strip(extractDoc.parts[i].content)
        /\ (\A p \in 1..Len(extractDoc.text) : ~IsFenceAt(extractDoc.text, p)) =>
               extracted = <<>>

C18_Witness ==
    /\ Returned
    /\ extractDoc.structured
    /\ Len(extractDoc.parts) = 2
    /\ extractDoc.gaps = << <<"a", "\n", BT>>, <<>>, <<"a", "\n", BT>> >>
    /\ extracted = << [language |-> <<"p", "y">>, content |-> <<"x", " ", "y">>],
                      [language |-> <<"t", "s", "x">>, content |-> <<"x">>] >>

\* the word characters that follow the fence at p, as far as they go
TagAt(t, p) ==
    LET runs == { k \in 0..(Len(t) - p - 2) : \A j \in 1..k : WordChar(t[p + 2 + j]) }
        n == CHOOSE k \in runs : \A m \in runs : m <= k
    IN SubSeq(t, p + 3, p + 2 + n)

\* C19: the language of a returned block is the tag that follows its opening
\* fence, and "tsx" when no tag follows it, also when only spaces stand
\* between the fence and the newline.
C19_LanguageIsTagOrTsx ==
    Returned =>
        /\ extractDoc.structured =>
               /\ Len(extracted) = Len(Kept)
               /\ \A i \in 1..Len(extracted) :
                      extracted[i].language =
                          IF Kept[i].tag = <<>> THEN <<"t", "s", "x">> ELSE Kept[i].tag
        /\ \A i \in 1..Len(extracted) :
               \E p \in 1..Len(extractDoc.text) :
                   /\ IsFenceAt(extractDoc.text, p)
                   /\ extracted[i].language =
                          IF TagAt(extractDoc.text, p) = <<>> THEN <<"t", "s", "x">>
                          ELSE TagAt(extractDoc.text, p)

C19_Witness ==
    /\ Returned
    /\ extractDoc.structured
    /\ Len(extractDoc.parts) = 2
    /\ extractDoc.parts[1].tag = <<>>
    /\ extractDoc.parts[1].sep = <<" ", "\n">>
    /\ extractDoc.parts[2].tag = <<"p", "y">>
    /\ Len(extracted) = 2
    /\ extracted[1].language = <<"t", "s", "x">>
    /\ extracted[2].language = <<"p", "y">>

\* C20: the content of every returned block is non-empty and neither starts
\* nor ends with whitespace; a block whose content is empty or whitespace
\* gives no entry, and the blocks after it are returned all the same.
C20_ContentTrimmedNonEmpty ==
    Returned =>
        /\ \A i \in 1..Len(extracted) :
               /\ extracted[i].content # <<>>
               /\ extracted[i].content[1] \notin Whitespace
               /\ extracted[i].content[Len(extracted[i].content)] \notin Whitespace
        /\ extractDoc.structured =>
               /\ Len(extracted) = Len(Kept)
               /\ \A i \in 1..Len(extracted) : extracted[i].content = Strip(Kept[i].content)

C20_Witness ==
    /\ Returned
    /\ extractDoc.structured
    /\ Len(extractDoc.parts) = 2
    /\ ~NonBlank(extractDoc.parts[1])
    /\ extractDoc.parts[2].content = <<"\n", "x", " ", "y", "\n">>
    /\ extracted = << [language |-> <<"p", "y">>, content |-> <<"x", " ", "y">>] >>

\* the matches that gave a block, in order
KeptMatches ==
    LET Gives(x) == BlockOf(x.match) # <<>>
    IN SelectSeq(MatchesFrom(extractDoc.text, 1), Gives)

\* C21: the first closing fence after an opening fence ends the block and
\* the scan goes on after it: the regions of the text the returned blocks
\* come from are pairwise disjoint and each runs from its opening fence to
\* the first closing fence, no returned content holds a fence, and two
\* blocks with nothing between the closing fence of the first and the
\* opening fence of the second are both returned.
C21_FirstCloserEndsBlock ==
    Returned =>
        /\ Len(KeptMatches) = Len(extracted)
        /\ \A i \in 1..Len(KeptMatches) :
               LET m == KeptMatches[i]
               IN /\ IsFenceAt(extractDoc.text, m.start)
                  /\ IsFenceAt(extractDoc.text, m.end - 3)
                  /\ m.start + 3 < m.end - 3
                  /\ extracted[i].content = Strip(m.match.group2)
                  /\ \A j \in (i + 1)..Len(KeptMatches) : m.end <= KeptMatches[j].start
        /\ \A i \in 1..Len(extracted) : ~Contains(extracted[i].content, <<BT, BT, BT>>)
        /\ (/\ extractDoc.structured
            /\ Len(extractDoc.parts) >= 2
            /\ NonBlank(extractDoc.parts[1])
            /\ NonBlank(extractDoc.parts[2])
            /\ extractDoc.gaps[2] = <<>>) =>
               /\ Len(extracted) >= 2
               /\ extracted[1].content = Strip(extractDoc.parts[1].content)
               /\ extracted[2].content = Strip(extractDoc.parts[2].content)

C21_Witness ==
    /\ Returned
    /\ extractDoc.structured
    /\ Len(extractDoc.parts) = 2
    /\ extractDoc.gaps[2] = <<>>
    /\ Len(extracted) = 2
    /\ KeptMatches[1].end = KeptMatches[2].start

-----------------------------------------------------------------------------
(* Properties of the chat endpoint, checked under SpecChat *)

\* a reader of the JSON text of an event, written from the JSON grammar and
\* not from JsonDumps: a position of 0 is a failed read
NoRead == [ok |-> FALSE, value |-> <<>>, next |-> 0]
Expect(t, p, lit) ==
    IF p > 0 /\ p + Len(lit) - 1 <= Len(t) /\ SubSeq(t, p, p + Len(lit) - 1) = lit
    THEN p + Len(lit)
    ELSE 0
JsonUnescape(c) ==
    CASE c = "n" -> "\n"
      [] c = "r" -> "\r"
      [] c = "t" -> "\t"
      [] OTHER -> c
RECURSIVE ReadChars(_, _, _)
ReadChars(t, p, acc) ==
    IF p > Len(t) \/ t[p] \in {"\n", "\r", "\t"} THEN NoRead
    ELSE IF t[p] = "\"" THEN [ok |-> TRUE, value |-> acc, next |-> p + 1]
    ELSE IF t[p] = "\\"
         THEN IF p + 1 <= Len(t) /\ t[p + 1] \in {"\"", "\\", "n", "r", "t"}
              THEN ReadChars(t, p + 2, Append(acc, JsonUnescape(t[p + 1])))
              ELSE NoRead
    ELSE ReadChars(t, p + 1, Append(acc, t[p]))
ReadString(t, p) == IF Expect(t, p, <<"\"">>) = 0 THEN NoRead ELSE ReadChars(t, p + 1, <<>>)

RECURSIVE ReadStringsTail(_, _, _)
ReadStringsTail(t, p, acc) ==
    IF Expect(t, p, <<"]">>) # 0 THEN [ok |-> TRUE, value |-> acc, next |-> p + 1]
    ELSE LET item == ReadString(t, Expect(t, p, <<",", " ">>))
         IN  IF item.ok THEN ReadStringsTail(t, item.next, Append(acc, item.value)) ELSE NoRead
ReadStrings(t, p) ==
    LET q == Expect(t, p, <<"[">>)
        item == ReadString(t, q)
    IN  IF q = 0 THEN NoRead
        ELSE IF Expect(t, q, <<"]">>) # 0 THEN [ok |-> TRUE, value |-> <<>>, next |-> q + 1]
        ELSE IF item.ok THEN ReadStringsTail(t, item.next, <<item.value>>)
        ELSE NoRead

RECURSIVE ReadRowsTail(_, _, _)
ReadRowsTail(t, p, acc) ==
    IF Expect(t, p, <<"]">>) # 0 THEN [ok |-> TRUE, value |-> acc, next |-> p + 1]
    ELSE LET item == ReadStrings(t, Expect(t, p, <<",", " ">>))
         IN  IF item.ok THEN ReadRowsTail(t, item.next, Append(acc, item.value)) ELSE NoRead
ReadRows(t, p) ==
    LET q == Expect(t, p, <<"[">>)
        item == ReadStrings(t, q)
    IN  IF q = 0 THEN NoRead
        ELSE IF Expect(t, q, <<"]">>) # 0 THEN [ok |-> TRUE, value |-> <<>>, next |-> q + 1]
        ELSE IF item.ok THEN ReadRowsTail(t, item.next, <<item.value>>)
        ELSE NoRead

RECURSIVE DigitRunEnd(_, _)
DigitRunEnd(t, p) ==
    IF p <= Len(t) /\ (\E v \in 0..9 : Digits[v + 1] = t[p]) THEN DigitRunEnd(t, p + 1) ELSE p
ReadInt(t, p) ==
    IF p = 0 \/ DigitRunEnd(t, p) = p THEN [ok |-> FALSE, value |-> 0, next |-> 0]
    ELSE [ok |-> TRUE, value |-> IntFromDigits(SubSeq(t, p, DigitRunEnd(t, p) - 1)),
          next |-> DigitRunEnd(t, p)]

Undecodable == [type |-> "undecodable"]
TypeNames == {"thought", "code", "data", "error"}

\* the event a JSON text denotes
JsonLoads(J) ==
    LET ty == ReadString(J, Expect(J, 1, <<"{", "\"", "t", "y", "p", "e", "\"", ":", " ">>))
        ends(p) == Expect(J, p, <<"}">>) = Len(J) + 1
    IN  IF ~ty.ok THEN Undecodable
        ELSE IF ty.value = TypeChars("thought")
        THEN LET c == ReadString(J, Expect(J, ty.next, <<",", " ", "\"", "c", "o", "n", "t", "e", "n", "t", "\"", ":", " ">>))
             IN  IF c.ok /\ ends(c.next) THEN [type |-> "thought", content |-> c.value]
                 ELSE Undecodable
        ELSE IF ty.value = TypeChars("code")
        THEN LET l == ReadString(J, Expect(J, ty.next, <<",", " ", "\"", "l", "a", "n", "g", "u", "a", "g", "e", "\"", ":", " ">>))
                 c == ReadString(J, Expect(J, l.next, <<",", " ", "\"", "c", "o", "n", "t", "e", "n", "t", "\"", ":", " ">>))
             IN  IF l.ok /\ c.ok /\ ends(c.next)
                 THEN [type |-> "code", language |-> l.value, content |-> c.value]
                 ELSE Undecodable
        ELSE IF ty.value = TypeChars("data")
        THEN LET cols == ReadStrings(J, Expect(J, Expect(J, ty.next, <<",", " ", "\"", "p", "a", "y", "l", "o", "a", "d", "\"", ":", " ">>), <<"{", "\"", "c", "o", "l", "u", "m", "n", "s", "\"", ":", " ">>))
                 rows == ReadRows(J, Expect(J, cols.next, <<",", " ", "\"", "r", "o", "w", "s", "\"", ":", " ">>))
                 n == ReadInt(J, Expect(J, rows.next, <<",", " ", "\"", "r", "o", "w", "_", "c", "o", "u", "n", "t", "\"", ":", " ">>))
             IN  IF cols.ok /\ rows.ok /\ n.ok /\ ends(Expect(J, n.next, <<"}">>))
                 THEN [type |-> "data",
                       payload |-> [columns |-> cols.value, rows |-> rows.value,
                                    row_count |-> n.value]]
                 ELSE Undecodable
        ELSE Undecodable

FramePrefix(type) == <<"e", "v", "e", "n", "t", ":", " ">> \o TypeChars(type) \o <<"\n">> \o <<"d", "a", "t", "a", ":", " ">>

\* the text of the data line of a frame of the given type
DataLine(f, type) == SubSeq(f, Len(FramePrefix(type)) + 1, Len(f) - 2)

IsFrameOf(f, ev) ==
    /\ ev.type \in TypeNames
    /\ StartsWith(f, FramePrefix(ev.type))
    /\ Len(f) >= Len(FramePrefix(ev.type)) + 2
    /\ SubSeq(f, Len(f) - 1, Len(f)) = <<"\n", "\n">>
    /\ ~Contains(DataLine(f, ev.type), <<"\n">>)
    /\ JsonLoads(DataLine(f, ev.type)) = ev

\* C24: the chunks written by the chat endpoint are, in production order, one
\* frame per event: "event: <type>", a line break, "data: <json>" on a single
\* line, and a blank line, where <type> is one of thought, code, data, error
\* and is the type field of the JSON, and the JSON denotes the whole event.
C24_OneFramePerEvent ==
    /\ Len(frames) = Len(chatHist.events)
    /\ \A k \in 1..Len(frames) : IsFrameOf(frames[k], chatHist.events[k])

C24_Witness ==
    /\ chatPc = "done"
    /\ \E k \in 1..Len(frames) : chatHist.events[k].type = "data"
    /\ \E k \in 1..Len(frames) :
           /\ chatHist.events[k].type = "code"
           /\ Contains(chatHist.events[k].content, <<"\n">>)
    /\ C24_OneFramePerEvent

\* the types of the events written so far
ChatTypes == [k \in 1..Len(chatHist.events) |-> chatHist.events[k].type]

\* w occurs in m, letter case ignored / letter case respected
SameLetter(a, b) == Upper(<<a>>) = Upper(<<b>>)
HasWord(m, w) ==
    \E i \in 1..(Len(m) - Len(w) + 1) : \A j \in 1..Len(w) : SameLetter(m[i + j - 1], w[j])
HasWordExact(m, w) ==
    \E i \in 1..(Len(m) - Len(w) + 1) : \A j \in 1..Len(w) : m[i + j - 1] = w[j]

\* events from..to are a thought followed by one data event with columns and rows
IsDataGroup(from, to) ==
    /\ to = from + 1
    /\ to <= Len(ChatTypes)
    /\ ChatTypes[from] = "thought"
    /\ ChatTypes[to] = "data"
    /\ chatHist.events[to].payload.columns # <<>>
    /\ chatHist.events[to].payload.rows # <<>>

\* events from..to are a thought followed by one or more tsx code events
IsCodeGroup(from, to) ==
    /\ to > from
    /\ to <= Len(ChatTypes)
    /\ ChatTypes[from] = "thought"
    /\ \A k \in (from + 1)..to :
           /\ ChatTypes[k] = "code"
           /\ chatHist.events[k].language = <<"t", "s", "x">>

\* the stream of a finished response, given whether the message counts as
\* containing "data" and as containing "code"
StreamFor(data, code) ==
    /\ Len(ChatTypes) >= 1
    /\ ChatTypes[1] = "thought"
    /\ (data /\ code) => IsDataGroup(1, 2) /\ IsCodeGroup(3, Len(ChatTypes))
    /\ (data /\ ~code) => IsDataGroup(1, Len(ChatTypes))
    /\ (~data /\ code) => IsCodeGroup(1, Len(ChatTypes))
    /\ (~data /\ ~code) => ChatTypes = <<"thought">>

\* C25 as stated, "containing" read as written (letter case respected): the
\* finished stream has a frame, starts with a thought, and is the data group,
\* the code group, the data group then the code group, or a single thought.
C25_StreamByKeyword ==
    /\ Len(ChatTypes) >= 1 => ChatTypes[1] = "thought"
    /\ chatPc = "done" =>
           StreamFor(HasWordExact(chatMessage, <<"d", "a", "t", "a">>), HasWordExact(chatMessage, <<"c", "o", "d", "e">>))

\* C25, amended: the same with "containing" read with letter case ignored,
\* as the endpoint matches its keywords on the lowercased message.
C25_StreamByKeywordAnyCase ==
    /\ Len(ChatTypes) >= 1 => ChatTypes[1] = "thought"
    /\ chatPc = "done" =>
           StreamFor(HasWord(chatMessage, <<"d", "a", "t", "a">>), HasWord(chatMessage, <<"c", "o", "d", "e">>))

C25_Witness ==
    /\ chatPc = "done"
    /\ HasWord(chatMessage, <<"d", "a", "t", "a">>) /\ ~HasWordExact(chatMessage, <<"d", "a", "t", "a">>)
    /\ HasWord(chatMessage, <<"c", "o", "d", "e">>) /\ ~HasWordExact(chatMessage, <<"c", "o", "d", "e">>)
    /\ IsDataGroup(1, 2)
    /\ IsCodeGroup(3, Len(ChatTypes))
    /\ Len(ChatTypes) > 4

\* the most frames one response has: both thoughts, the data event and one
\* code event per chunk
MaxFrames == 3 + (Len(sample_code) + chunk_size - 1) \div chunk_size

\* C26: every frame but the first is written after at least one suspension of
\* the generator at a sleep since the frame before it, and no suspension
\* lasts forever: at any time, another frame is written later or the stream
\* has ended.
C26_SuspendsBetweenFrames ==
    /\ [](\A k \in 2..Len(frames) : chatHist.sleeps[k] >= 1)
    /\ \/ []<><<Len(frames') > Len(frames)>>_vars
       \/ <>[](chatPc = "done")

C26_Witness ==
    /\ chatPc = "done"
    /\ Len(frames) = MaxFrames
    /\ chatHist.sleeps[1] = 0
    /\ \A k \in 2..Len(frames) : chatHist.sleeps[k] = 1

-----------------------------------------------------------------------------
(* Properties of the query endpoint, checked under SpecQuery *)

\* the rows of the answer for the rows the engine fetched: every cell that is
\* not None as its text
CellText(c) ==
    IF c.t = "none" THEN <<>>
    ELSE IF c.t = "int" THEN <<IntToStr(c.v)>>
    ELSE <<c.s>>
RowsOf(e) == [i \in 1..Len(e.rows) |-> [j \in 1..Len(e.rows[i]) |-> CellText(e.rows[i][j])]]

IsDetailAnswer(r, statuses) ==
    /\ r.status \in statuses
    /\ r.body = <<>>
    /\ r.detail # <<>>

-----------------------------------------------------------------------------
(* Properties of two concurrent sessions, checked under SpecPair *)

\* the events handle_agent_events produces when run alone on a raw sequence
RECURSIVE SoloRun(_, _)
SoloRun(buf, raw) ==
    IF raw = <<>> THEN <<>>
    ELSE HandleEvent(buf, Head(raw)).events
         \o SoloRun(HandleEvent(buf, Head(raw)).buffer, Tail(raw))

\* C29: with the steps of two sessions interleaved in any order, the events
\* each session has produced (yielded, or about to be) are the events it
\* produces alone on the raw events it has taken, and a finished session has
\* yielded all of them.
C29_SessionsIndependent ==
    \A s \in Sessions :
        /\ pair.of[s].out \o pair.of[s].pending = SoloRun(<<>>, pair.of[s].raw)
        /\ pair.of[s].genPc = "done" => pair.of[s].out = SoloRun(<<>>, pair.of[s].raw)

C29_Witness ==
    /\ pair.order = <<1, 2, 1, 2>>
    /\ \A s \in Sessions : pair.of[s].genPc = "done" /\ Len(pair.of[s].out) >= 2
    /\ pair.of[1].thought_buffer # <<>>
    /\ pair.of[2].thought_buffer # <<>>
    /\ pair.of[1].thought_buffer # pair.of[2].thought_buffer
    /\ pair.of[1].out # pair.of[2].out

-----------------------------------------------------------------------------
(* Properties of a session whose consumer goes away, checked under SpecClose *)

\* C30: the step in which the consumer closes the stream produces no event,
\* an Error event included, and from then on no raw event is pulled, no
\* event is produced or left to be yielded, no tool call is started, and the
\* generator never runs again.
C30_CloseAbandons ==
    [][/\ (genPc # "closed" /\ genPc' = "closed") => (out' = out /\ pending' = <<>>)
       /\ genPc = "closed" =>
              /\ genPc' = "closed"
              /\ nPulled' = nPulled
              /\ out' = out
              /\ pending' = <<>>
              /\ thought_buffer' = thought_buffer
              /\ agent' = agent]_vars

C30_Witness ==
    /\ genPc = "closed"
    /\ Len(out) >= 2
    /\ nPulled < MaxRaw
    /\ agent.pendingCalls > 0
    /\ ~hist.failed
    /\ sqlPc = "returned"

-----------------------------------------------------------------------------
(* Properties of the dispatch of run_sql, checked under SpecLive *)

\* C31: a run_sql call posts nothing before its dispatch and exactly one body
\* {sql: final_query} from then on, whatever the engine answers; and once
\* called it ends: it returns a result or raises.
C31_SingleDispatch ==
    /\ [](/\ sqlPc = "called" => hist.posts = <<>>
          /\ sqlPc \in {"sent", "returned", "raised"} => hist.posts = <<[sql |-> final_query]>>)
    /\ (sqlPc = "called") ~> (sqlPc \in {"returned", "raised"})

C31_Witness ==
    /\ sqlPc = "raised"
    /\ hist.response.kind = "request_error"
    /\ hist.posts = <<[sql |-> final_query]>>
    /\ final_query # tool.query

-----------------------------------------------------------------------------
(* Properties of create_agent, checked under SpecAgents *)

\* C32: the agents returned by the calls of create_agent so far are pairwise
\* different objects, none shares its model, provider or settings object
\* with another, and each has exactly the one tool run_sql.
C32_FreshAgentOneTool ==
    /\ \A i, j \in 1..Len(created.agents) :
           i # j =>
               /\ created.agents[i].id # created.agents[j].id
               /\ created.agents[i].model.id # created.agents[j].model.id
               /\ created.agents[i].model.provider.id # created.agents[j].model.provider.id
               /\ created.agents[i].model.settings.id # created.agents[j].model.settings.id
    /\ \A i \in 1..Len(created.agents) : created.agents[i].tools = <<"run_sql">>

C32_Witness ==
    /\ Len(created.agents) = MaxAgents
    /\ created.agents[1].model.provider.region_name = created.agents[2].model.provider.region_name
    /\ created.agents[1].model.model_name = created.agents[2].model.model_name
    /\ created.agents[1].id # created.agents[2].id

-----------------------------------------------------------------------------
(* Properties of a recorded session, checked under SpecStream *)

\* the events yielded and the events of the current raw event still to be yielded
Produced == out \o [i \in 1..Len(pending) |-> pending[i].ev]

\* C33: what stream_agent_response has produced is what handle_agent_events
\* produces for the raw events pulled, in order, followed by one Error event
\* when the raw sequence raised and by nothing when it did not; when the
\* stream is over, all of it has been yielded.
C33_PrefixThenError ==
    /\ Produced = SoloRun(<<>>, hist.raws)
                  \o (IF hist.failed THEN <<ErrorEvent(hist.failMsg)>> ELSE <<>>)
    /\ Len(hist.raws) = nPulled
    /\ genPc = "done" => pending = <<>>
    /\ (genPc = "done" /\ ~hist.failed) => \A i \in 1..Len(out) : out[i].type # "error"

C33_Witness ==
    /\ genPc = "done"
    /\ hist.failed
    /\ nPulled = 3
    /\ Len(out) >= 4
    /\ out[Len(out)].type = "error"
    /\ \E i \in 1..Len(out) : out[i].type = "code"

-----------------------------------------------------------------------------
(* Further properties of the query-limiting policy, checked under SpecSql *)

\* the clause run_sql appends for this tool, and whether the posted query is
\* the rewritten one
AppendedClause(t) == LimitClause \o IntToStr(t.limit)
ClauseAppended ==
    /\ sqlPc # "called"
    /\ final_query # tool.query
    /\ Len(final_query) >= Len(AppendedClause(tool))
    /\ SubSeq(final_query, Len(final_query) - Len(AppendedClause(tool)) + 1, Len(final_query))
           = AppendedClause(tool)
BeforeClause == SubSeq(final_query, 1, Len(final_query) - Len(AppendedClause(tool)))
EndsWithTerminator(q) == Strip(q) # <<>> /\ Strip(q)[Len(Strip(q))] = ";"

\* C34: when the limiting clause was applied to a query whose trimmed text
\* ends with ';', the text posted before the appended clause holds no ';'.
C34_NoTerminatorBeforeLimit ==
    (ClauseAppended /\ EndsWithTerminator(tool.query)) => ~Contains(BeforeClause, <<";">>)

\* C35: rewriting the posted query again with the same limit leaves it as
\* it is, so no posted query carries the appended clause twice.
C35_RewriteIdempotent ==
    Dispatched =>
        /\ LimitQuery([tool EXCEPT !.query = final_query]) = final_query
        /\ ClauseAppended =>
               ~Contains(BeforeClause, AppendedClause(tool))

C35_Witness ==
    /\ ClauseAppended
    /\ tool.limit = 10
    /\ Contains(tool.query, <<";">>)
    /\ LimitQuery([tool EXCEPT !.query = final_query]) = final_query

-----------------------------------------------------------------------------
(* Text parts that end with the content they streamed, checked under SpecPart *)

\* every event produced so far with the index of the raw event behind it
ProducedFrom ==
    [i \in 1..Len(out) |-> [ev |-> out[i], src |-> hist.outSrc[i]]] \o pending

\* the raw event pulled last ends a part with the start content plus all deltas
WellFormedPartEnd ==
    /\ LastRawIs("PartEnd", "text")
    /\ hist.seg # <<>>
    /\ hist.lastRaw.text = StreamedContent

PartRaws == { hist.segRaw[i] : i \in 1..Len(hist.segRaw) } \cup {nPulled}
PartThoughtAt ==
    { i \in 1..Len(ProducedFrom) :
        ProducedFrom[i].src \in PartRaws /\ ProducedFrom[i].ev.type = "thought" }
PartCodeAt ==
    { i \in 1..Len(ProducedFrom) :
        ProducedFrom[i].src = nPulled /\ ProducedFrom[i].ev.type = "code" }
LastPartThought ==
    ProducedFrom[CHOOSE i \in PartThoughtAt : \A j \in PartThoughtAt : j <= i].ev

\* C36: when a text part ends with the content it streamed (start content
\* plus all deltas), every Code event of that end has a content that occurs
\* in the last Thought of the part, and every Thought of the part comes before
\* every Code event of the part.
C36_CodeWithinLastThought ==
    WellFormedPartEnd =>
        /\ PartThoughtAt # {}
        /\ \A j \in PartCodeAt :
               /\ Contains(LastPartThought.content, ProducedFrom[j].ev.content)
               /\ \A i \in PartThoughtAt : i < j

C36_Witness ==
    /\ WellFormedPartEnd
    /\ Len(hist.seg) = 3
    /\ pending = <<>>
    /\ Len(out) = 5
    /\ out[3].type = "thought"
    /\ out[4] = [type |-> "code", language |-> <<"t", "s", "x">>, content |-> <<"x", "y">>]
    /\ out[5] = [type |-> "code", language |-> <<"t", "s", "x">>, content |-> <<"z">>]

-----------------------------------------------------------------------------
(* Further properties of the query endpoint, checked under SpecQuery *)

\* C37: once the request is answered, whatever the outcome, the temporary
\* script file no longer exists.
C37_ScriptRemoved ==
    queryPc = "responded" => script_path # "exists"

\* the answer is a 200 whose body has the fields of QueryResult
ConformsToQueryResult(r) ==
    /\ r.status = 200
    /\ r.detail = <<>>
    /\ Len(r.body) = 1
    /\ DOMAIN r.body[1] = {"columns", "rows", "row_count"}
    /\ DOMAIN r.body[1].columns = 1..Len(r.body[1].columns)
    /\ DOMAIN r.body[1].rows = 1..Len(r.body[1].rows)
    /\ r.body[1].row_count \in Int

ChildReturned == queryHist.cause \in {"returned", "succeeded", "sql_failed", "died", "garbled"}

SqlErrorDetail(error) ==
    <<"S", "Q", "L", " ", "e", "x", "e", "c", "u", "t", "i", "o", "n", " ", "e", "r", "r", "o", "r", ":", " ">> \o error

\* C38: whatever exit code and output the child ends with, and when it times
\* out, the request is answered with a 200 that conforms to QueryResult or
\* with an HTTP error that carries a detail text; output that is an error
\* object is answered 400 with the detail raised for it, never 500, whatever
\* the exit code; a timeout is answered 504.
C38_TotalOverOutcomes ==
    queryPc = "responded" =>
        /\ \/ ConformsToQueryResult(queryResponse)
           \/ IsDetailAnswer(queryResponse, {400, 500, 504})
        /\ (ChildReturned /\ queryProcess.stdout.kind = "object" /\ queryProcess.stdout.error # <<>>) =>
               /\ queryResponse.status = 400
               /\ queryResponse.detail = SqlErrorDetail(queryProcess.stdout.error[1])
        /\ queryHist.cause = "timeout" =>
               /\ queryResponse.status = 504
               /\ queryResponse.detail = <<"Q", "u", "e", "r", "y", " ", "e", "x", "e", "c", "u", "t", "i", "o", "n", " ", "t", "i", "m", "e", "d", " ", "o", "u", "t">>

C38_Witness ==
    /\ queryPc = "responded"
    /\ queryHist.cause = "returned"
    /\ queryProcess.returncode = 0
    /\ queryProcess.stdout.kind = "object"
    /\ queryProcess.stdout.error # <<>>
    /\ queryResponse.status = 400

=============================================================================
